---- MODULE Spec2Model ----
(***************************************************************************)
(* Broker clients and tool adapters of the mcp-servers repository:         *)
(*   - the packaged Capital.com client and adapter                         *)
(*       capital_com_mcp_server/capital_com_mcp_server/capital_client.py   *)
(*       capital_com_mcp_server/capital_com_mcp_server/capital_mcp_server.py*)
(*   - the legacy Capital.com client and adapter                           *)
(*       capital_com_mcp_server/capital_client.py                          *)
(*       capital_com_mcp_server/capital-mcp-server.py                      *)
(*   - the eToro client and adapter                                        *)
(*       etoro_mcp_server/etoro_mcp_server/etoro_client.py                 *)
(*       etoro_mcp_server/etoro_mcp_server/etoro_mcp_server.py             *)
(*                                                                         *)
(* A call (a client method or an adapter tool) is a stack of frames; every  *)
(* HTTP request is a step of its own: the request is put in flight, the    *)
(* broker answers with any response of Responses, and the code resumes     *)
(* where it waited.  Under Spec one call runs at a time and everything the *)
(* code does between two requests happens inside one step.  Under          *)
(* SpecConcurrent two threads call methods of one packaged client; a       *)
(* thread can also be preempted between the two assignments that store the *)
(* session tokens and between the two reads that build the token headers.  *)
(* Under SpecReads a read can be remembered and is then repeated by the    *)
(* next call, the broker answering what it answered before.                *)
(***************************************************************************)
EXTENDS Integers, Sequences, FiniteSets, TLC

VARIABLES
  variant,        \* which program runs: "packaged", "legacy" or "etoro"
  client,         \* the packaged CapitalClient instance
  legacy,         \* the legacy CapitalClient instance
  etoro,          \* the EtoroClient instance
  authenticated,  \* the adapter's module-level flag
  call,           \* the call in progress (or just finished), NoCall when idle
  stack,          \* frames of the call in progress, innermost last
  pending,        \* the HTTP request in flight, NoReq when none
  result,         \* what the call returned (or raised), NoResult while it runs
  reqlog,         \* HTTP requests issued by the call, in order
  resplog,        \* what the broker answered to them, in order
  authlog,        \* results of the authenticate() calls made by the call
  ctxlog,         \* number of diagnostics sent to ctx.error by the call
  oplog,          \* client methods the adapter invoked during the call, each with
                  \* the number of authenticate() calls made before it
  pre,            \* the client and the flag as they were when the call started
  threads,        \* SpecConcurrent: the call, stack, request and logs of each thread
  stores,         \* SpecConcurrent: the writes to client.cst and
                  \* client.x_security_token, in the order they happened
  prev,           \* SpecReads: the call before this one, with its result, its
                  \* requests and their answers
  logs            \* SpecLogs: what two runs of one operation wrote to the log

vars == << variant, client, legacy, etoro, authenticated, call, stack, pending,
           result, reqlog, resplog, authlog, ctxlog, oplog, pre, threads, stores,
           prev, logs >>

----------------------------------------------------------------------------
(* Values *)

None == "None"

\* The longest period, in seconds, the activity history accepts (24 hours).
MaxPeriod == 86400

\* The legacy client's request counter never goes back.  The client is followed
\* while it has counted fewer than MaxCounted requests more than it started with.
MaxCounted == 4

\* Sizes, leverages and amounts are counted in thousandths: 10 is 0.01, 1000 is 1.
Milli == 1000

\* An optional number or boolean: <<>> is Python's None, <<v>> is the value v.
Nil == << >>
Some(v) == << v >>
IsNone(x) == x = Nil
\* Python truthiness of an optional boolean (None and False are falsy) and of an
\* optional number (None and 0 are falsy).
Truthy(x) == x # Nil /\ x[1]
NonZero(x) == x # Nil /\ x[1] # 0

Tokens == {"T1", "T2"}
AccountIds == {"A1", "A2"}

NoCall == [layer |-> "none"]
NoReq == [method |-> "none"]
\* What a preempted thread has in place of a request in flight.
Preempted == [method |-> "preempted"]
NoResult == [t |-> "none"]

\* Response bodies: "nojson" is an empty or non-JSON body, "J0".."J2" are JSON
\* documents whose content depends on the resource asked for.
Bodies == {"nojson", "J0", "J1", "J2"}

\* GET /api/v1/accounts: the "accounts" array of the body.
Accounts(body) ==
  CASE body = "J1" -> << "A1" >>
    [] body = "J2" -> << "A2", "A1" >>
    [] OTHER -> << >>

\* GET /api/v1/positions: the open positions of the body, by dealId.
Positions(body) ==
  CASE body = "J1" -> << [dealId |-> "D1", direction |-> "BUY", size |-> 2 * Milli, epic |-> "E1"] >>
    [] body = "J2" -> << [dealId |-> "D2", direction |-> "SELL", size |-> 3 * Milli, epic |-> "E2"],
                         [dealId |-> "D1", direction |-> "SELL", size |-> 5 * Milli, epic |-> "E1"] >>
    [] OTHER -> << >>

\* GET /api/v1/prices/{epic}: whether the body carries a non-empty "prices" array.
HasPrices(body) == body \in {"J1", "J2"}

\* Status 0 stands for a transport failure: requests raises instead of answering.
Statuses == {200, 401, 500}
NetworkError == [status |-> 0, cst |-> None, xst |-> None, body |-> "nojson"]
\* The CST / X-SECURITY-TOKEN header pairs a response can carry: none, one of
\* the two, or a full pair (the pair of one session or of another).
TokenPairs ==
  { <<None, None>>, <<"T1", None>>, <<None, "T1">>, <<"T1", "T1">>, <<"T2", "T2">> }
Responses ==
  { [status |-> st, cst |-> tp[1], xst |-> tp[2], body |-> b] :
      st \in Statuses, tp \in TokenPairs, b \in Bodies }
    \cup {NetworkError}
\* The answers to one request: the token headers are read from the answer to
\* the login request only, so the other answers are taken without them.
ResponsesTo(req) ==
  IF req.by = "authenticate" /\ req.ep = "session" THEN Responses
  ELSE { r \in Responses : r.cst = None /\ r.xst = None }

\* Values passed between frames.
BoolV(b) == [t |-> "bool", b |-> b]
RespV(r) == [t |-> "resp", r |-> r]
ExcV(e) == [t |-> "exc", e |-> e]
\* A returned dictionary: error is None for a success payload; status is the
\* HTTP status quoted in the error text (0 when none); details tells whether the
\* raw response body is attached; data names the payload.
Ok(data) == [t |-> "dict", error |-> None, status |-> 0, details |-> FALSE, data |-> data]
Err(e) == [t |-> "dict", error |-> e, status |-> 0, details |-> FALSE, data |-> None]
Failed(st, det) == [t |-> "dict", error |-> "Failed", status |-> st, details |-> det, data |-> None]
\* An exception that leaves the call.
Raised(e) == [t |-> "raised", e |-> e]

IsDict(v) == v.t = "dict"
IsError(v) == v.t = "dict" /\ v.error # None

----------------------------------------------------------------------------
(* The machine: the part of the state a call reads and writes *)

\* thread is the thread that runs the call (0 when calls run one at a time),
\* preempt tells whether another thread can run in the middle of the call.
Machine ==
  [client |-> client, legacy |-> legacy, etoro |-> etoro,
   authenticated |-> authenticated, stack |-> stack, pending |-> pending,
   result |-> result, reqlog |-> reqlog, resplog |-> resplog,
   authlog |-> authlog, ctxlog |-> ctxlog, oplog |-> oplog,
   thread |-> 0, preempt |-> FALSE, stores |-> << >>]

\* Put an HTTP request in flight; frame is where the code waits for the answer.
Issue(m, req, frame) ==
  [m EXCEPT !.stack = Append(@, frame), !.pending = req, !.reqlog = Append(@, req)]

\* Call a procedure that will return to frame.
Push(m, frame) == [m EXCEPT !.stack = Append(@, frame)]

RECURSIVE Ret(_, _)

\* A point between two statements where another thread can run: the thread
\* parks with frame on its stack, and goes on from frame when it is scheduled
\* again.  With one call at a time the code goes on at once.
Yield(m, frame) ==
  IF m.preempt THEN [m EXCEPT !.stack = Append(@, frame), !.pending = Preempted]
  ELSE Ret(Push(m, frame), [t |-> "none"])

\* An assignment to self.cst or self.x_security_token.
StoreToken(m, key, val) ==
  [m EXCEPT !.client[key] = val,
            !.stores = Append(@, [by |-> m.thread, key |-> key, val |-> val])]

----------------------------------------------------------------------------
(* Packaged client: capital_com_mcp_server/capital_com_mcp_server/capital_client.py *)

\* CapitalClient._get_auth_headers: the API key plus each token that is set.
get_auth_headers(c) ==
  [api_key |-> c.api_key, cst |-> c.cst, xst |-> c.x_security_token]

\* An HTTP request; by names the procedure that sends it ("authenticate" for
\* the two requests of authenticate(), "request" for an operation's own).
Request(method, ep, headers, payload, by) ==
  [method |-> method, ep |-> ep, cst |-> headers.cst, xst |-> headers.xst,
   payload |-> payload, by |-> by]

\* CapitalClient.authenticate, up to the POST /api/v1/session.
authenticate(m) ==
  LET c == m.client IN
  IF ~c.base_url \/ ~c.api_key \/ ~c.identifier \/ ~c.password
  THEN Ret([m EXCEPT !.authlog = Append(@, FALSE)], BoolV(FALSE))
  ELSE Issue(m, Request("POST", "session", [cst |-> None, xst |-> None], "login",
                            "authenticate"),
             [f |-> "auth_login"])

\* "headers=self._get_auth_headers()" followed by the request: self.cst is read,
\* then self.x_security_token, then the request goes out.  frame is where the
\* code waits for the answer; it remembers the request sent.
send_authenticated(m, method, ep, payload, by, frame) ==
  Yield(m, [f |-> "headers", cst |-> get_auth_headers(m.client).cst, method |-> method,
            ep |-> ep, payload |-> payload, by |-> by, frame |-> frame])

send_authenticated_headers(m, fr) ==
  LET req == Request(fr.method, fr.ep,
                     [cst |-> fr.cst, xst |-> get_auth_headers(m.client).xst],
                     fr.payload, fr.by) IN
  Issue(m, req, [fr.frame EXCEPT !.req = req])

\* CapitalClient.authenticate, from the login response to "self.cst = ...".
authenticate_login(m, v) ==
  IF v.t = "exc"
  THEN Ret([m EXCEPT !.authlog = Append(@, FALSE)], BoolV(FALSE))
  ELSE IF v.r.status = 200
  THEN Yield(StoreToken(m, "cst", v.r.cst), [f |-> "auth_store", r |-> v.r])
  ELSE Ret([m EXCEPT !.authlog = Append(@, FALSE)], BoolV(FALSE))

\* CapitalClient.authenticate, from "self.x_security_token = ..." to the
\* GET /api/v1/accounts.
authenticate_store(m, fr) ==
  LET m1 == StoreToken(m, "x_security_token", fr.r.xst) IN
  \* response.json() and the os.environ assignments raise on a non-JSON body
  \* and on a token that is None; the except clause returns False.
  IF fr.r.body = "nojson" \/ m1.client.x_security_token = None \/ m1.client.cst = None
  THEN Ret([m1 EXCEPT !.authlog = Append(@, FALSE)], BoolV(FALSE))
  ELSE send_authenticated(m1, "GET", "accounts", None, "authenticate",
                          [f |-> "auth_accounts", req |-> NoReq])

\* A variant of authenticate_accounts that forgets the cached account when the
\* account list cannot be had.
authenticate_accounts_reset(m, v) ==
  IF v.t = "exc"
  THEN Ret([m EXCEPT !.client.account_id = None, !.authlog = Append(@, FALSE)], BoolV(FALSE))
  ELSE IF v.r.status = 200 /\ v.r.body # "nojson" /\ Len(Accounts(v.r.body)) > 0
  THEN Ret([m EXCEPT !.client.account_id = Accounts(v.r.body)[1],
                     !.authlog = Append(@, TRUE)], BoolV(TRUE))
  ELSE Ret([m EXCEPT !.client.account_id = None, !.authlog = Append(@, FALSE)], BoolV(FALSE))

\* CapitalClient.authenticate, from the accounts response to the return.
authenticate_accounts(m, v) ==
  IF v.t = "exc"
  THEN Ret([m EXCEPT !.authlog = Append(@, FALSE)], BoolV(FALSE))
  ELSE IF v.r.status = 200 /\ v.r.body # "nojson" /\ Len(Accounts(v.r.body)) > 0
  THEN Ret([m EXCEPT !.client.account_id = Accounts(v.r.body)[1],
                     !.authlog = Append(@, TRUE)], BoolV(TRUE))
  ELSE Ret([m EXCEPT !.authlog = Append(@, FALSE)], BoolV(FALSE))

\* CapitalClient._make_authenticated_request, up to the initial request.
make_authenticated_request(m, method, ep, payload) ==
  IF m.client.account_id = None
  THEN Ret(m, ExcV("Not authenticated"))
  ELSE send_authenticated(m, method, ep, payload, "request",
                          [f |-> "mar_first", req |-> NoReq])

\* CapitalClient._make_authenticated_request, on the answer to the initial request.
make_authenticated_request_first(m, fr, v) ==
  IF v.t = "exc" THEN Ret(m, v)
  ELSE IF v.r.status = 401
  THEN authenticate(Push(m, [f |-> "mar_reauth", req |-> fr.req]))
  ELSE Ret(m, v)

\* A retry that sends the first request again as it was, old tokens included.
make_authenticated_request_reauth_stale(m, fr, v) ==
  IF v.b
  THEN Issue(m, fr.req, [f |-> "mar_retry", req |-> fr.req])
  ELSE Ret(m, ExcV("Re-authentication failed"))

\* CapitalClient._make_authenticated_request, after the re-authentication.
make_authenticated_request_reauth(m, fr, v) ==
  IF v.b
  THEN send_authenticated(m, fr.req.method, fr.req.ep, fr.req.payload, "request",
                          [f |-> "mar_retry", req |-> NoReq])
  ELSE Ret(m, ExcV("Re-authentication failed"))

\* The body of a client method after its request: status 200 parses the JSON,
\* any other status becomes an error dictionary, an exception is caught.
\* withDetails: the methods that attach response.text as "details".
op_response(v, data, withDetails) ==
  IF v.t = "exc" THEN Err(v.e)
  ELSE IF v.r.status = 200
  THEN IF v.r.body = "nojson" THEN Err("JSONDecodeError") ELSE Ok(data)
  ELSE Failed(v.r.status, withDetails)

\* Methods guarded by "if not self.account_id: return {'error': 'Not authenticated'}"
\* that issue one GET and return response.json().
SimpleChecked ==
  {"get_account_info", "get_positions", "get_watchlists", "get_historical_prices"}
\* Methods that go straight to _make_authenticated_request.
SimpleUnchecked == {"get_session_info"}

Endpoint(op) ==
  CASE op = "get_account_info" -> "accounts"
    [] op = "get_prices" -> "prices"
    [] op = "get_historical_prices" -> "prices/history"
    [] op = "get_positions" -> "positions"
    [] op = "get_watchlists" -> "watchlists"
    [] op = "get_session_info" -> "session"
    [] OTHER -> "other"

\* get_account_info, get_positions, get_watchlists, get_historical_prices.
simple_checked(m, op) ==
  IF m.client.account_id = None
  THEN Ret(m, Err("Not authenticated"))
  ELSE make_authenticated_request(Push(m, [f |-> "op_simple", op |-> op]),
                                  "GET", Endpoint(op), None)

\* get_session_info (and the other methods without the account_id guard).
simple_unchecked(m, op) ==
  make_authenticated_request(Push(m, [f |-> "op_simple", op |-> op]),
                             "GET", Endpoint(op), None)

\* CapitalClient.get_prices: the epic goes into the URL as it is.
get_prices(m, epic) ==
  IF m.client.account_id = None
  THEN Ret(m, Err("Not authenticated"))
  ELSE make_authenticated_request(Push(m, [f |-> "op_simple", op |-> "get_prices"]),
                                  "GET", "prices", [epic |-> epic])

simple_response(m, fr, v) == Ret(m, op_response(v, [op |-> fr.op, body |-> IF v.t = "resp" THEN v.r.body ELSE None], FALSE))


\* create_position / update_position arguments.  profit_distance and
\* profit_amount are handled by the code exactly as profit_level is and are not
\* modelled separately.
OptBool == {Nil, Some(TRUE), Some(FALSE)}
StopArg(gs, ts, sl, sd, sa, pl) ==
  [guaranteed_stop |-> gs, trailing_stop |-> ts, stop_level |-> sl,
   stop_distance |-> sd, stop_amount |-> sa, profit_level |-> pl]
\* Argument vectors on both sides of every parameter rule.
StopArgs ==
  { StopArg(Nil, Nil, Nil, Nil, Nil, Nil),
    StopArg(Nil, Nil, Some(5), Nil, Nil, Nil),
    StopArg(Nil, Nil, Nil, Nil, Nil, Some(5)),
    StopArg(Some(FALSE), Nil, Nil, Nil, Nil, Nil),
    StopArg(Some(TRUE), Some(TRUE), Nil, Some(5), Nil, Nil),
    StopArg(Some(TRUE), Some(FALSE), Nil, Some(5), Nil, Nil),
    StopArg(Nil, Some(TRUE), Nil, Nil, Nil, Nil),
    StopArg(Nil, Some(TRUE), Some(5), Some(0), Nil, Nil),
    StopArg(Nil, Some(TRUE), Nil, Some(5), Nil, Nil),
    StopArg(Some(TRUE), Nil, Nil, Nil, Nil, Some(5)),
    StopArg(Some(TRUE), Nil, Nil, Some(0), Nil, Nil),
    StopArg(Some(TRUE), Nil, Some(5), Nil, Nil, Nil),
    StopArg(Some(TRUE), Nil, Nil, Nil, Some(5), Nil) }

\* The keys the request body gets: every argument that is not None.
StopPayload(a) ==
  { k \in {"guaranteed_stop", "trailing_stop", "stop_level", "stop_distance",
           "stop_amount", "profit_level"} : ~IsNone(a[k]) }

\* The request body: each argument that is not None under its key, with its value.
StopJson(a) == [k \in StopPayload(a) |-> a[k][1]]

\* The parameter rules without the one on trailing stops.
stop_rules_lenient(a) ==
  IF Truthy(a.guaranteed_stop) /\ Truthy(a.trailing_stop)
  THEN "Cannot set both guaranteedStop and trailingStop"
  ELSE IF Truthy(a.guaranteed_stop)
          /\ ~(NonZero(a.stop_level) \/ NonZero(a.stop_distance) \/ NonZero(a.stop_amount))
  THEN "When guaranteedStop is true, must set stopLevel, stopDistance, or stopAmount"
  ELSE None

\* The parameter-combination rules shared by create_position and update_position.
\* The result is the error message, or None when the combination is allowed.
stop_rules(a) ==
  IF Truthy(a.guaranteed_stop) /\ Truthy(a.trailing_stop)
  THEN "Cannot set both guaranteedStop and trailingStop"
  ELSE IF Truthy(a.trailing_stop) /\ ~NonZero(a.stop_distance)
  THEN "stopDistance is required when trailingStop is true"
  ELSE IF Truthy(a.guaranteed_stop)
          /\ ~(NonZero(a.stop_level) \/ NonZero(a.stop_distance) \/ NonZero(a.stop_amount))
  THEN "When guaranteedStop is true, must set stopLevel, stopDistance, or stopAmount"
  ELSE None

AllNone(a) ==
  /\ IsNone(a.guaranteed_stop) /\ IsNone(a.trailing_stop) /\ IsNone(a.stop_level)
  /\ IsNone(a.stop_distance) /\ IsNone(a.stop_amount) /\ IsNone(a.profit_level)

\* CapitalClient.create_position
create_position(m, a) ==
  IF m.client.account_id = None THEN Ret(m, Err("Not authenticated"))
  ELSE IF stop_rules(a) # None THEN Ret(m, Err(stop_rules(a)))
  ELSE make_authenticated_request(
         Push(m, [f |-> "op_details", op |-> "create_position"]), "POST", "positions",
         [epic |-> a.epic, direction |-> a.direction, size |-> a.size,
          keys |-> StopPayload(a), json |-> StopJson(a)])

\* An update_position without the check that some parameter is given.
update_position_unchecked(m, a) ==
  IF m.client.account_id = None THEN Ret(m, Err("Not authenticated"))
  ELSE IF stop_rules(a) # None THEN Ret(m, Err(stop_rules(a)))
  ELSE make_authenticated_request(
         Push(m, [f |-> "op_details", op |-> "update_position"]), "PUT", "positions/id",
         [deal_id |-> a.deal_id, keys |-> StopPayload(a), json |-> StopJson(a)])

\* CapitalClient.update_position
update_position(m, a) ==
  IF m.client.account_id = None THEN Ret(m, Err("Not authenticated"))
  ELSE IF stop_rules(a) # None THEN Ret(m, Err(stop_rules(a)))
  ELSE IF AllNone(a) THEN Ret(m, Err("At least one parameter must be provided"))
  ELSE make_authenticated_request(
         Push(m, [f |-> "op_details", op |-> "update_position"]), "PUT", "positions/id",
         [deal_id |-> a.deal_id, keys |-> StopPayload(a), json |-> StopJson(a)])

\* create_position, update_position, get_activity_history after the request:
\* response.json() on 200, otherwise an error with the raw body as "details".
details_response(m, fr, v) ==
  Ret(m, op_response(v, [op |-> fr.op, body |-> IF v.t = "resp" THEN v.r.body ELSE None],
                     TRUE))

\* A variant of FindPosition that takes the first position of the list.
FindPosition_first(ps, deal_id) == IF ps = << >> THEN << >> ELSE << ps[1] >>

\* The position whose dealId is deal_id, as a sequence of at most one element.
RECURSIVE FindPosition(_, _)
FindPosition(ps, deal_id) ==
  IF ps = << >> THEN << >>
  ELSE IF ps[1].dealId = deal_id THEN << ps[1] >>
  ELSE FindPosition(Tail(ps), deal_id)

\* CapitalClient.close_position, up to the get_positions() call.
close_position(m, deal_id) ==
  IF m.client.account_id = None THEN Ret(m, Err("Not authenticated"))
  ELSE simple_checked(Push(m, [f |-> "close_positions", deal_id |-> deal_id]),
                      "get_positions")

\* CapitalClient.close_position, from the position list to the DELETE.
close_position_positions(m, fr, v) ==
  IF IsError(v) THEN Ret(m, v)
  ELSE LET found == FindPosition(Positions(v.data.body), fr.deal_id) IN
       IF found = << >> THEN Ret(m, Err("Position not found"))
       ELSE make_authenticated_request(
              Push(m, [f |-> "close_delete"]), "DELETE", "positions",
              [dealId |-> fr.deal_id, epic |-> found[1].epic,
               direction |-> IF found[1].direction = "BUY" THEN "SELL" ELSE "BUY",
               size |-> found[1].size])

\* CapitalClient.close_position, after the DELETE.
close_position_delete(m, fr, v) ==
  Ret(m, op_response(v, [op |-> "close_position",
                         body |-> IF v.t = "resp" THEN v.r.body ELSE None], FALSE))

\* CapitalClient.calculate_margin, up to the get_prices() call.
calculate_margin(m, a) ==
  get_prices(Push(m, [f |-> "margin_prices", a |-> a]), a.epic)

\* CapitalClient.calculate_margin, from the price information to the return.
calculate_margin_prices(m, fr, v) ==
  IF IsError(v) \/ ~HasPrices(v.data.body)
  THEN Ret(m, Err("Could not retrieve price information"))
  ELSE Ret(m, Ok([op |-> "calculate_margin", body |-> v.data.body]))

WorkingOrderArgs ==
  [level : {Nil, Some(5)}, stop_level : {Nil, Some(5)}, profit_level : {Nil}]

\* CapitalClient.update_working_order
update_working_order(m, a) ==
  LET data == { k \in {"level", "stop_level", "profit_level"} : ~IsNone(a[k]) } IN
  IF data = {}
  THEN Ret(m, Err("At least one parameter (level, stop_level, profit_level) must be provided"))
  ELSE make_authenticated_request(
         Push(m, [f |-> "op_working_order"]), "PUT", "workingorders/id", [keys |-> data])

\* CapitalClient.update_working_order, after the PUT: no JSON is parsed on 200.
update_working_order_response(m, fr, v) ==
  IF v.t = "exc" THEN Ret(m, Err(v.e))
  ELSE IF v.r.status = 200
  THEN Ret(m, Ok([op |-> "update_working_order", body |-> None]))
  ELSE Ret(m, Failed(v.r.status, TRUE))

\* get_activity_history arguments: dates as seconds on some clock, None when
\* absent; last_period in seconds.
ActivityArgs ==
  [from_date : {Nil, Some(0), Some(2 * MaxPeriod + 1)},
   to_date : {Nil, Some(MaxPeriod), Some(MaxPeriod + 1)},
   last_period : {Nil, Some(MaxPeriod), Some(MaxPeriod + 1)}]

\* CapitalClient.get_activity_history
get_activity_history(m, a) ==
  IF ~IsNone(a.from_date) /\ ~IsNone(a.to_date) /\ a.to_date[1] - a.from_date[1] > MaxPeriod
  THEN Ret(m, Err("Date range cannot exceed 24 hours"))
  ELSE IF NonZero(a.last_period) /\ IsNone(a.from_date) /\ IsNone(a.to_date)
          /\ a.last_period[1] > MaxPeriod
  THEN Ret(m, Err("lastPeriod cannot exceed 86400 seconds"))
  ELSE make_authenticated_request(
         Push(m, [f |-> "op_details", op |-> "get_activity_history"]), "GET",
         "history/activity",
         [from |-> a.from_date, to |-> a.to_date,
          lastPeriod |-> IF NonZero(a.last_period) /\ IsNone(a.from_date) /\ IsNone(a.to_date)
                         THEN a.last_period ELSE Nil])

\* The client method a call or a tool names.
client_op(m, op, args) ==
  CASE op \in SimpleChecked -> simple_checked(m, op)
    [] op \in SimpleUnchecked -> simple_unchecked(m, op)
    [] op = "get_prices" -> get_prices(m, args.epic)
    [] op = "create_position" -> create_position(m, args)
    [] op = "update_position" -> update_position(m, args)
    [] op = "close_position" -> close_position(m, args.deal_id)
    [] op = "calculate_margin" -> calculate_margin(m, args)
    [] op = "update_working_order" -> update_working_order(m, args)
    [] op = "get_activity_history" -> get_activity_history(m, args)

----------------------------------------------------------------------------
(* Packaged adapter: capital_com_mcp_server/capital_com_mcp_server/capital_mcp_server.py *)

AuthFailed == "Authentication failed"

\* A diagnostic goes to ctx.error.
ctx_error(m) == [m EXCEPT !.ctxlog = @ + 1]

\* The client method the adapter invoked last has returned v (or raised).
Returned(m, v) == [m EXCEPT !.oplog = [@ EXCEPT ![Len(@)].ret = v]]

\* The tools that report an error dictionary of the client to ctx.error.
ReportsErrors ==
  {"get_historical_prices", "create_position", "close_position", "update_position",
   "get_watchlists"}

\* "result = client.<op>(...)" of a tool, and what the tool does with the result.
tool_delegate(m, tool, args) ==
  client_op(Push([m EXCEPT !.oplog = Append(@, [op |-> tool, auths |-> Len(m.authlog), ret |-> NoResult])],
                 [f |-> "tool_result", tool |-> tool]),
            tool, args)

tool_result(m0, fr, v) ==
  LET m == Returned(m0, v) IN
  IF v.t = "exc" THEN Ret(ctx_error(m), Err(v.e))
  ELSE IF IsError(v) /\ fr.tool \in ReportsErrors THEN Ret(ctx_error(m), v)
  ELSE Ret(m, v)

\* A variant of ensure_authenticated that authenticates whatever the flag says.
ensure_authenticated_always(m, tool, args, bound) ==
  authenticate(Push(m, [f |-> "tool_auth", tool |-> tool, args |-> args, bound |-> bound]))

\* "if not authenticated: authenticated = client.authenticate()".  bound tells
\* whether the failure branch assigns error_msg before it uses it.
ensure_authenticated(m, tool, args, bound) ==
  IF m.authenticated THEN tool_delegate(m, tool, args)
  ELSE authenticate(Push(m, [f |-> "tool_auth", tool |-> tool, args |-> args,
                             bound |-> bound]))

\* The tool after client.authenticate(): a failure is returned as an error
\* dictionary where error_msg is assigned, and raises UnboundLocalError at
\* logger.error(error_msg) where it is not.
tool_authenticated(m, fr, v) ==
  LET m1 == [m EXCEPT !.authenticated = v.b] IN
  IF v.b THEN tool_delegate(m1, fr.tool, fr.args)
  ELSE IF fr.bound THEN Ret(ctx_error(m1), Err(AuthFailed))
  ELSE Ret(m1, Raised("UnboundLocalError"))

\* A local validation error of a tool: reported to ctx.error and returned.
tool_reject(m, e) == Ret(ctx_error(m), Err(e))

\* get_account_info, get_positions, get_activity_history and the other tools
\* that authenticate inside their try block.
tool_get_account_info(m, a) == ensure_authenticated(m, "get_account_info", a, TRUE)
tool_get_positions(m, a) == ensure_authenticated(m, "get_positions", a, TRUE)
tool_get_session_info(m, a) == ensure_authenticated(m, "get_session_info", a, TRUE)
tool_get_activity_history(m, a) == ensure_authenticated(m, "get_activity_history", a, TRUE)

\* get_prices: no authentication step.
tool_get_prices(m, a) == tool_delegate(m, "get_prices", a)

\* The tools that authenticate before their try block.
tool_get_historical_prices(m, a) ==
  ensure_authenticated(m, "get_historical_prices", a, FALSE)
tool_get_watchlists(m, a) == ensure_authenticated(m, "get_watchlists", a, FALSE)

tool_create_position(m, a) ==
  IF a.epic = "" THEN tool_reject(m, "Epic identifier cannot be empty")
  ELSE IF a.direction \notin {"BUY", "SELL"}
  THEN tool_reject(m, "Direction must be either 'BUY' or 'SELL'")
  ELSE IF a.size <= 0 THEN tool_reject(m, "Size must be greater than 0")
  ELSE ensure_authenticated(m, "create_position", a, FALSE)

tool_close_position(m, a) ==
  IF a.deal_id = "" THEN tool_reject(m, "Deal ID cannot be empty")
  ELSE ensure_authenticated(m, "close_position", a, FALSE)

tool_update_position(m, a) ==
  IF a.deal_id = "" THEN tool_reject(m, "Deal ID cannot be empty")
  ELSE IF AllNone(a) THEN tool_reject(m, "At least one parameter must be provided")
  ELSE IF stop_rules(a) # None THEN tool_reject(m, stop_rules(a))
  ELSE ensure_authenticated(m, "update_position", a, FALSE)

tool_update_working_order(m, a) ==
  IF a.working_order_id = "" THEN tool_reject(m, "Working order ID cannot be empty")
  ELSE IF IsNone(a.level) /\ IsNone(a.stop_level) /\ IsNone(a.profit_level)
  THEN tool_reject(m, "At least one parameter (level, stop_level, or profit_level) must be provided")
  ELSE ensure_authenticated(m, "update_working_order", a, TRUE)

tool_op(m, name, a) ==
  CASE name = "get_account_info" -> tool_get_account_info(m, a)
    [] name = "get_positions" -> tool_get_positions(m, a)
    [] name = "get_session_info" -> tool_get_session_info(m, a)
    [] name = "get_activity_history" -> tool_get_activity_history(m, a)
    [] name = "get_prices" -> tool_get_prices(m, a)
    [] name = "get_historical_prices" -> tool_get_historical_prices(m, a)
    [] name = "get_watchlists" -> tool_get_watchlists(m, a)
    [] name = "create_position" -> tool_create_position(m, a)
    [] name = "close_position" -> tool_close_position(m, a)
    [] name = "update_position" -> tool_update_position(m, a)
    [] name = "update_working_order" -> tool_update_working_order(m, a)

----------------------------------------------------------------------------
(* Legacy client: capital_com_mcp_server/capital_client.py *)

\* CapitalClient.__init__: self.max_requests_per_minute
max_requests_per_minute == 60

\* The request counts the legacy client is followed from: 0, as __init__ leaves
\* it, and two short of the limit, as 58 calls of get_positions leave it.
StartCounts == {0, max_requests_per_minute - 2}

\* CapitalClient.__init__: self.max_daily_trades
max_daily_trades == 20

\* The numbers of trades of the day the legacy client is followed from: none,
\* and one short of the limit.
StartTrades == {0, max_daily_trades - 1}

\* CapitalClient._check_rate_limit: the counter is incremented, then compared.
\* A variant of check_rate_limit that starts a new window once the limit has
\* been reached.
check_rate_limit_window(l) ==
  [l EXCEPT !.request_count = IF @ >= max_requests_per_minute THEN 1 ELSE @ + 1]

check_rate_limit(l) == [l EXCEPT !.request_count = @ + 1]
rate_limited(l) == l.request_count > max_requests_per_minute

\* self.headers: the API key plus the tokens of the last login (requests drops
\* a header whose value is None).
legacy_headers(l) == [cst |-> l.cst, xst |-> l.security_token]

\* requests.post / get / put of the legacy client: with no base URL the URL has
\* no scheme and requests raises MissingSchema, a RequestException, before
\* anything is sent.
legacy_send(m, method, ep, payload, by, frame) ==
  IF ~m.legacy.base_url
  THEN Ret(Push(m, frame), ExcV("RequestException"))
  ELSE Issue(m, Request(method, ep, legacy_headers(m.legacy), payload, by), frame)

\* What response.json() does with a body that is not JSON: requests 2.27 and
\* later raise a RequestException, which the methods catch; earlier versions
\* raise a plain ValueError, which they do not.
JsonErrors == {"RequestException", "ValueError"}

\* Legacy CapitalClient.authenticate, up to the POST /api/v1/session.
legacy_authenticate(m) ==
  LET m1 == [m EXCEPT !.legacy = check_rate_limit(@)] IN
  IF rate_limited(m1.legacy)
  THEN Ret([m1 EXCEPT !.authlog = Append(@, FALSE)], BoolV(FALSE))
  ELSE legacy_send(m1, "POST", "session", "login", "authenticate", [f |-> "legacy_auth"])

\* Legacy CapitalClient.authenticate, from the login response on.  No account
\* list is fetched and no account id is kept.
legacy_authenticate_login(m, v) ==
  IF v.t = "exc" \/ v.r.status # 200
  THEN Ret([m EXCEPT !.authlog = Append(@, FALSE)], BoolV(FALSE))
  ELSE IF v.r.body = "nojson"
  THEN IF m.legacy.json_error = "RequestException"
       THEN Ret([m EXCEPT !.authlog = Append(@, FALSE)], BoolV(FALSE))
       ELSE Ret([m EXCEPT !.authlog = Append(@, FALSE)], ExcV("ValueError"))
  ELSE Ret([m EXCEPT !.legacy.cst = v.r.cst, !.legacy.security_token = v.r.xst,
                     !.authlog = Append(@, TRUE)], BoolV(TRUE))

\* The tail of a legacy method: raise_for_status(), response.json(), and the
\* "except RequestException" clause with the method's fixed error text.
legacy_response(m, fr, v) ==
  IF v.t = "exc" \/ v.r.status # 200 THEN Ret(m, Err(fr.failure))
  ELSE IF v.r.body = "nojson"
  THEN IF m.legacy.json_error = "RequestException"
       THEN Ret(m, Err(fr.failure))
       ELSE Ret(m, ExcV("ValueError"))
  ELSE Ret(m, Ok([op |-> fr.op, body |-> v.r.body]))

\* Legacy CapitalClient.get_positions
legacy_get_positions(m) ==
  LET m1 == [m EXCEPT !.legacy = check_rate_limit(@)] IN
  IF rate_limited(m1.legacy) THEN Ret(m1, Err("Rate limit exceeded"))
  ELSE legacy_send(m1, "GET", "positions", None, "request",
                   [f |-> "legacy_op", op |-> "get_positions",
                    failure |-> "Failed to retrieve open positions"])

\* The characters of the strings that are passed as epic, direction, deal_id
\* and resolution.
Chars(s) ==
  CASE s = "" -> << >>
    [] s = "E1" -> << "E", "1" >>
    [] s = "D1" -> << "D", "1" >>
    [] s = "D9" -> << "D", "9" >>
    [] s = "E2" -> << "E", "2" >>
    [] s = "D2" -> << "D", "2" >>
    [] s = "BUY" -> << "B", "U", "Y" >>
    [] s = "SELL" -> << "S", "E", "L", "L" >>
    [] s = "HOLD" -> << "H", "O", "L", "D" >>
    [] s = "DAY" -> << "D", "A", "Y" >>
    [] s = "YEAR" -> << "Y", "E", "A", "R" >>
    [] s = "D<1>" -> << "D", "<", "1", ">" >>
    [] s = "BUY;" -> << "B", "U", "Y", ";" >>
    [] s = "DAY;" -> << "D", "A", "Y", ";" >>
    [] s = "E<" -> << "E", "<" >>
    [] s = "E>" -> << "E", ">" >>
    [] s = "E{" -> << "E", "{" >>
    [] s = "E}" -> << "E", "}" >>
    [] s = "E(" -> << "E", "(" >>
    [] s = "E)" -> << "E", ")" >>
    [] s = "E[" -> << "E", "[" >>
    [] s = "E]" -> << "E", "]" >>
    [] s = "E;" -> << "E", ";" >>

\* re.search(r'[<>{}()\[\];]', value)
InjectionChars == {"<", ">", "{", "}", "(", ")", "[", "]", ";"}
HasInjection(s) == \E i \in 1..Len(Chars(s)) : Chars(s)[i] \in InjectionChars

Resolutions ==
  {"MINUTE", "MINUTE_5", "MINUTE_15", "MINUTE_30", "HOUR", "HOUR_4", "DAY", "WEEK", "MONTH"}

\* CapitalClient.__init__: self.min_position_size, self.max_position_size
min_position_size == 10
max_position_size == 10 * Milli
\* The leverage and max_bars limits of the validators.
MaxLeverage == 100 * Milli
MaxBars == 1000

StringKeys == {"epic", "direction", "deal_id", "resolution"}
NumericKeys == {"size", "leverage", "stop_level", "profit_level", "max_bars"}
OptionalKeys == {"stop_level", "profit_level", "from_date", "to_date", "leverage"}

Required(key) ==
  CASE key = "epic" -> "Parameter 'epic' is required"
    [] key = "direction" -> "Parameter 'direction' is required"
    [] key = "deal_id" -> "Parameter 'deal_id' is required"
    [] key = "resolution" -> "Parameter 'resolution' is required"
    [] key = "size" -> "Parameter 'size' is required"
    [] key = "max_bars" -> "Parameter 'max_bars' is required"
InvalidCharacters(key) ==
  CASE key = "epic" -> "Invalid characters in parameter 'epic'"
    [] key = "direction" -> "Invalid characters in parameter 'direction'"
    [] key = "deal_id" -> "Invalid characters in parameter 'deal_id'"
    [] key = "resolution" -> "Invalid characters in parameter 'resolution'"

\* One round of the loop of _validate_input / validate_input: the error for one
\* keyword argument, None when it passes.  A string argument is a string (None
\* when absent), a numeric one an optional number; lo and hi are the size limits.
validate_value(key, value, lo, hi) ==
  IF key \in StringKeys
  THEN IF value = None THEN Required(key)
       ELSE IF HasInjection(value) THEN InvalidCharacters(key)
       ELSE IF key = "direction" /\ value \notin {"BUY", "SELL"}
       THEN "Direction must be 'BUY' or 'SELL'"
       ELSE IF key = "resolution" /\ value \notin Resolutions THEN "Invalid resolution"
       ELSE None
  ELSE IF IsNone(value) THEN IF key \in OptionalKeys THEN None ELSE Required(key)
  ELSE IF key \notin NumericKeys THEN None
  ELSE IF key = "size" /\ value[1] < lo THEN "Position size too small"
  ELSE IF key = "size" /\ value[1] > hi THEN "Position size too large"
  ELSE IF key = "leverage" /\ (value[1] <= 0 \/ value[1] > MaxLeverage)
  THEN "Leverage must be between 1 and 100"
  ELSE IF key = "max_bars" /\ (value[1] <= 0 \/ value[1] > MaxBars)
  THEN "Max bars must be between 1 and 1000"
  ELSE None

\* The keyword arguments keys of a call, in the order they are passed.
RECURSIVE Kwargs(_, _)
Kwargs(a, keys) ==
  IF keys = << >> THEN << >>
  ELSE << << keys[1], a[keys[1]] >> >> \o Kwargs(a, Tail(keys))

\* CapitalClient._validate_input of the legacy client: the first error, in the
\* order of the keyword arguments.
RECURSIVE client_validate_input(_)
client_validate_input(kw) ==
  IF kw = << >> THEN None
  ELSE LET e == validate_value(kw[1][1], kw[1][2], min_position_size, max_position_size) IN
       IF e # None THEN e ELSE client_validate_input(Tail(kw))

\* validate_input of the legacy adapter: the same loop with the limits 0.01 and
\* 10.0 written out.
RECURSIVE validate_input(_)
validate_input(kw) ==
  IF kw = << >> THEN None
  ELSE LET e == validate_value(kw[1][1], kw[1][2], 10, 10 * Milli) IN
       IF e # None THEN e ELSE validate_input(Tail(kw))

UpdateKeys == << "deal_id", "stop_level", "profit_level" >>

AtLeastOne == "At least one of stop_level or profit_level must be provided"

\* Legacy CapitalClient.update_position
legacy_update_position(m, a) ==
  LET m1 == [m EXCEPT !.legacy = check_rate_limit(@)] IN
  IF rate_limited(m1.legacy) THEN Ret(m1, Err("Rate limit exceeded"))
  ELSE IF client_validate_input(Kwargs(a, UpdateKeys)) # None
  THEN Ret(m1, Err(client_validate_input(Kwargs(a, UpdateKeys))))
  ELSE IF IsNone(a.stop_level) /\ IsNone(a.profit_level) THEN Ret(m1, Err(AtLeastOne))
  ELSE legacy_send(m1, "PUT", "positions/id",
                   [deal_id |-> a.deal_id,
                    keys |-> { k \in {"stop_level", "profit_level"} : ~IsNone(a[k]) }],
                   "request",
                   [f |-> "legacy_op", op |-> "update_position",
                    failure |-> "Failed to update position"])

\* Legacy CapitalClient.get_prices
legacy_get_prices(m, epic) ==
  LET m1 == [m EXCEPT !.legacy = check_rate_limit(@)]
      kw == << << "epic", epic >> >> IN
  IF rate_limited(m1.legacy) THEN Ret(m1, Err("Rate limit exceeded"))
  ELSE IF client_validate_input(kw) # None THEN Ret(m1, Err(client_validate_input(kw)))
  ELSE legacy_send(m1, "GET", "prices", [epic |-> epic], "request",
                   [f |-> "legacy_op", op |-> "get_prices",
                    failure |-> "Failed to retrieve prices"])

HistoryKeys == << "epic", "resolution", "max_bars", "from_date", "to_date" >>

\* Legacy CapitalClient.get_historical_prices
legacy_get_historical_prices(m, a) ==
  LET m1 == [m EXCEPT !.legacy = check_rate_limit(@)]
      kw == Kwargs(a, HistoryKeys) IN
  IF rate_limited(m1.legacy) THEN Ret(m1, Err("Rate limit exceeded"))
  ELSE IF client_validate_input(kw) # None THEN Ret(m1, Err(client_validate_input(kw)))
  ELSE legacy_send(m1, "GET", "prices", [epic |-> a.epic, resolution |-> a.resolution],
                   "request",
                   [f |-> "legacy_op", op |-> "get_historical_prices",
                    failure |-> "Failed to retrieve historical prices"])

MarginKeys == << "epic", "direction", "size", "leverage" >>

\* Legacy CapitalClient.calculate_margin, up to the get_prices() call.
legacy_calculate_margin(m, a) ==
  LET m1 == [m EXCEPT !.legacy = check_rate_limit(@)]
      kw == Kwargs(a, MarginKeys) IN
  IF rate_limited(m1.legacy) THEN Ret(m1, Err("Rate limit exceeded"))
  ELSE IF client_validate_input(kw) # None THEN Ret(m1, Err(client_validate_input(kw)))
  ELSE legacy_get_prices(Push(m1, [f |-> "legacy_margin", a |-> a]), a.epic)

\* Legacy CapitalClient.calculate_margin, from the price information on: an
\* error of get_prices is returned as it is; the margin is price * size / leverage.
legacy_calculate_margin_prices(m, fr, v) ==
  IF v.t = "exc" \/ IsError(v) THEN Ret(m, v)
  ELSE IF ~HasPrices(v.data.body)
  THEN Ret(m, Err("Could not retrieve price information"))
  ELSE IF IsNone(fr.a.leverage) THEN Ret(m, ExcV("TypeError"))
  ELSE Ret(m, Ok([op |-> "calculate_margin", body |-> v.data.body]))

\* CapitalClient._check_trading_limits
\* A variant of check_trading_limits that refuses only above the limit.
check_trading_limits_above(l) ==
  IF l.daily_trade_count > max_daily_trades THEN "Daily trading limit has been reached"
  ELSE None

check_trading_limits(l) ==
  IF l.daily_trade_count >= max_daily_trades THEN "Daily trading limit has been reached"
  ELSE None

CreateKeys == << "epic", "direction", "size", "stop_level", "profit_level", "leverage" >>

\* Legacy CapitalClient.create_position, up to the POST /api/v1/positions.
legacy_create_position(m, a) ==
  LET m1 == [m EXCEPT !.legacy = check_rate_limit(@)]
      kw == Kwargs(a, CreateKeys) IN
  IF rate_limited(m1.legacy) THEN Ret(m1, Err("Rate limit exceeded"))
  ELSE IF client_validate_input(kw) # None THEN Ret(m1, Err(client_validate_input(kw)))
  ELSE IF check_trading_limits(m1.legacy) # None
  THEN Ret(m1, Err(check_trading_limits(m1.legacy)))
  ELSE legacy_send(m1, "POST", "positions",
                   [epic |-> a.epic, direction |-> a.direction, size |-> a.size,
                    leverage |-> a.leverage,
                    keys |-> { k \in {"stop_level", "profit_level", "leverage"} :
                                 NonZero(a[k]) }],
                   "request", [f |-> "legacy_create"])

\* Legacy CapitalClient.create_position, after the POST: the trade is counted
\* once raise_for_status() has passed, before the body is parsed.
legacy_create_position_response(m, v) ==
  IF v.t = "exc" \/ v.r.status # 200 THEN Ret(m, Err("Failed to create position"))
  ELSE LET m1 == [m EXCEPT !.legacy.daily_trade_count = @ + 1] IN
       IF v.r.body = "nojson"
       THEN IF m.legacy.json_error = "RequestException"
            THEN Ret(m1, Err("Failed to create position"))
            ELSE Ret(m1, ExcV("ValueError"))
       ELSE Ret(m1, Ok([op |-> "create_position", body |-> v.r.body]))

legacy_client_op(m, op, a) ==
  CASE op = "authenticate" -> legacy_authenticate(m)
    [] op = "get_positions" -> legacy_get_positions(m)
    [] op = "update_position" -> legacy_update_position(m, a)
    [] op = "get_prices" -> legacy_get_prices(m, a.epic)
    [] op = "get_historical_prices" -> legacy_get_historical_prices(m, a)
    [] op = "calculate_margin" -> legacy_calculate_margin(m, a)
    [] op = "create_position" -> legacy_create_position(m, a)

----------------------------------------------------------------------------
(* Legacy adapter: capital_com_mcp_server/capital-mcp-server.py *)

legacy_tool_delegate(m, tool, a) ==
  legacy_client_op(
    Push([m EXCEPT !.oplog = Append(@, [op |-> tool, auths |-> Len(m.authlog), ret |-> NoResult])],
         [f |-> "legacy_tool_result", tool |-> tool]),
    tool, a)

\* The try block of a legacy tool around the client call.
legacy_tool_result(m0, fr, v) ==
  LET m == Returned(m0, v) IN
  IF v.t = "exc" THEN Ret(ctx_error(m), Err("Failed"))
  ELSE IF IsError(v) THEN Ret(ctx_error(m), v)
  ELSE Ret(m, v)

\* Legacy tool update_position after its authentication step: the check that
\* one of stop_level and profit_level is given, then the client call.
legacy_tool_update_position_body(m, a) ==
  IF IsNone(a.stop_level) /\ IsNone(a.profit_level)
  THEN Ret(ctx_error(m), Err(AtLeastOne))
  ELSE legacy_tool_delegate(m, "update_position", a)

\* Legacy tool create_position after its authentication step: the margin is
\* calculated first.
legacy_tool_create_position_body(m, a) ==
  legacy_client_op(
    Push([m EXCEPT !.oplog = Append(@, [op |-> "calculate_margin",
                                        auths |-> Len(m.authlog), ret |-> NoResult])],
         [f |-> "legacy_tool_margin", args |-> a]),
    "calculate_margin", a)

\* Legacy tool create_position, from the margin to client.create_position().
legacy_tool_create_position_margin(m0, fr, v) ==
  LET m == Returned(m0, v) IN
  IF v.t = "exc" THEN Ret(ctx_error(m), Err("Failed"))
  ELSE IF IsError(v) THEN Ret(ctx_error(m), Err(v.error))
  ELSE legacy_tool_delegate(m, "create_position", fr.args)

legacy_tool_body(m, tool, a) ==
  IF tool = "update_position" THEN legacy_tool_update_position_body(m, a)
  ELSE IF tool = "create_position" THEN legacy_tool_create_position_body(m, a)
  ELSE legacy_tool_delegate(m, tool, a)

\* "if not authenticated: authenticated = client.authenticate()" of a legacy
\* tool, outside its try block.
legacy_ensure_authenticated(m, tool, a) ==
  IF m.authenticated THEN legacy_tool_body(m, tool, a)
  ELSE legacy_authenticate(Push(m, [f |-> "legacy_tool_auth", tool |-> tool, args |-> a]))

\* A variant of legacy_tool_authenticated that goes on whatever
\* client.authenticate() returned.
legacy_tool_authenticated_anyway(m, fr, v) ==
  IF v.t = "exc" THEN Ret(m, v)
  ELSE legacy_tool_body([m EXCEPT !.authenticated = v.b], fr.tool, fr.args)

legacy_tool_authenticated(m, fr, v) ==
  IF v.t = "exc" THEN Ret(m, v)
  ELSE LET m1 == [m EXCEPT !.authenticated = v.b] IN
       IF v.b THEN legacy_tool_body(m1, fr.tool, fr.args)
       ELSE Ret(ctx_error(m1), Err("Authentication required"))

\* Legacy tool get_positions
legacy_tool_get_positions(m, a) == legacy_ensure_authenticated(m, "get_positions", a)

\* Legacy tool update_position
legacy_tool_update_position(m, a) ==
  IF validate_input(Kwargs(a, UpdateKeys)) # None
  THEN Ret(ctx_error(m), Err(validate_input(Kwargs(a, UpdateKeys))))
  ELSE legacy_ensure_authenticated(m, "update_position", a)

ToolCreateKeys == << "epic", "direction", "size", "leverage", "stop_level", "profit_level" >>

\* Legacy tool create_position
legacy_tool_create_position(m, a) ==
  IF validate_input(Kwargs(a, ToolCreateKeys)) # None
  THEN Ret(ctx_error(m), Err(validate_input(Kwargs(a, ToolCreateKeys))))
  ELSE legacy_ensure_authenticated(m, "create_position", a)

legacy_tool(m, name, a) ==
  CASE name = "get_positions" -> legacy_tool_get_positions(m, a)
    [] name = "update_position" -> legacy_tool_update_position(m, a)
    [] name = "create_position" -> legacy_tool_create_position(m, a)

----------------------------------------------------------------------------
(* eToro client: etoro_mcp_server/etoro_mcp_server/etoro_client.py *)

\* {"success": True}, returned for a success whose body is not JSON.
SuccessMarker == [success |-> TRUE]

\* EtoroClient._make_request, up to the request.
etoro_make_request(m, method, path, payload) ==
  Issue(m, Request(method, path, [cst |-> None, xst |-> None], payload, "request"),
        [f |-> "etoro_request"])

\* EtoroClient._make_request, on the answer: a 401 is returned as an error at
\* once; any other status below 400 is a success, JSON or not.
etoro_make_request_response(m, v) ==
  IF v.t = "exc" THEN Ret(m, Err("Request error"))
  ELSE IF v.r.status = 401 THEN Ret(m, Err("Authentication failed. Check your eToro API keys."))
  ELSE IF v.r.status < 400
  THEN IF v.r.body = "nojson" THEN Ret(m, Ok(SuccessMarker))
       ELSE Ret(m, Ok([op |-> "request", body |-> v.r.body]))
  ELSE Ret(m, Failed(v.r.status, TRUE))

\* EtoroClient.get_portfolio returns what _make_request returned.
etoro_get_portfolio(m) == etoro_make_request(m, "GET", "portfolio", None)

\* EtoroClient.get_positions
etoro_get_positions(m) == etoro_get_portfolio(Push(m, [f |-> "etoro_positions"]))

\* The positions of the portfolio; the success marker has none, as "J0".
etoro_get_positions_portfolio(m, v) ==
  IF IsError(v) THEN Ret(m, v)
  ELSE IF v.data = SuccessMarker THEN Ret(m, Ok([op |-> "get_positions", body |-> "J0"]))
  ELSE Ret(m, Ok([op |-> "get_positions", body |-> v.data.body]))

\* EtoroClient.validate_credentials
etoro_validate_credentials(m) ==
  IF ~m.etoro.api_key \/ ~m.etoro.user_key THEN Ret(m, BoolV(FALSE))
  ELSE etoro_make_request(Push(m, [f |-> "etoro_validate"]), "GET", "market-data/search",
                          None)

etoro_validate_credentials_result(m, v) == Ret(m, BoolV(~IsError(v)))

\* EtoroClient.create_position: the three local checks, then the POST; what
\* _make_request returned is returned.
etoro_create_position(m, a) ==
  IF a.instrument_id <= 0 THEN Ret(m, Err("instrument_id must be a positive integer"))
  ELSE IF a.amount <= 0 THEN Ret(m, Err("amount must be greater than 0"))
  ELSE IF a.leverage < 1 * Milli THEN Ret(m, Err("leverage must be at least 1"))
  ELSE etoro_make_request(m, "POST", "market-open-orders/by-amount",
                          [instrument_id |-> a.instrument_id, amount |-> a.amount,
                           leverage |-> a.leverage])

\* A variant of AmountPayload that sends both fields whenever one is given.
AmountPayload_both(a) ==
  IF IsNone(a.amount) /\ IsNone(a.amount_in_units) THEN {} ELSE {"Amount", "AmountInUnits"}

\* The amount fields of the limit order's body: "if amount is not None",
\* "if amount_in_units is not None".
AmountPayload(a) ==
  { k \in {"Amount", "AmountInUnits"} :
      \/ k = "Amount" /\ ~IsNone(a.amount)
      \/ k = "AmountInUnits" /\ ~IsNone(a.amount_in_units) }

\* EtoroClient.place_limit_order: the four local checks, then the POST; what
\* _make_request returned is returned.
etoro_place_limit_order(m, a) ==
  IF a.instrument_id <= 0 THEN Ret(m, Err("instrument_id must be a positive integer"))
  ELSE IF ~IsNone(a.amount) /\ ~IsNone(a.amount_in_units)
  THEN Ret(m, Err("Provide either 'amount' or 'amount_in_units', not both"))
  ELSE IF IsNone(a.amount) /\ IsNone(a.amount_in_units)
  THEN Ret(m, Err("Must provide either 'amount' or 'amount_in_units'"))
  ELSE IF a.leverage < 1 * Milli THEN Ret(m, Err("leverage must be at least 1"))
  ELSE etoro_make_request(m, "POST", "limit-orders",
                          [instrument_id |-> a.instrument_id, leverage |-> a.leverage,
                           amount |-> a.amount, amount_in_units |-> a.amount_in_units,
                           keys |-> AmountPayload(a)])

etoro_client_op(m, op, a) ==
  CASE op = "validate_credentials" -> etoro_validate_credentials(m)
    [] op = "get_portfolio" -> etoro_get_portfolio(m)
    [] op = "get_positions" -> etoro_get_positions(m)
    [] op = "create_position" -> etoro_create_position(m, a)
    [] op = "place_limit_order" -> etoro_place_limit_order(m, a)

----------------------------------------------------------------------------
(* eToro adapter: etoro_mcp_server/etoro_mcp_server/etoro_mcp_server.py *)

\* A variant of check_credentials that looks at the API key only.
check_credentials_api_key(m) == ~m.etoro.api_key

\* check_credentials: whether one of the two keys is missing.
check_credentials(m) == ~m.etoro.api_key \/ ~m.etoro.user_key

\* The checks a tool makes on its arguments before it looks at the credentials:
\* the first that fails, None when none does.
etoro_tool_checks(tool, a) ==
  CASE tool = "create_position" ->
         IF a.instrument_id <= 0 THEN "instrument_id must be a positive integer"
         ELSE IF a.amount <= 0 THEN "amount must be greater than 0"
         ELSE IF a.leverage < 1 * Milli THEN "leverage must be at least 1"
         ELSE None
    [] tool = "place_limit_order" ->
         IF ~IsNone(a.amount) /\ ~IsNone(a.amount_in_units)
         THEN "Provide either 'amount' or 'amount_in_units', not both"
         ELSE IF IsNone(a.amount) /\ IsNone(a.amount_in_units)
         THEN "Must provide either 'amount' or 'amount_in_units'"
         ELSE None
    [] OTHER -> None

\* A tool of the eToro adapter: its checks, the credential check, the client
\* call, and ctx.error when the result has an "error" key; the result is
\* returned as it is.
etoro_tool(m, tool, a) ==
  IF etoro_tool_checks(tool, a) # None THEN tool_reject(m, etoro_tool_checks(tool, a))
  ELSE IF check_credentials(m) THEN Ret(ctx_error(m), Err("Missing credentials"))
  ELSE etoro_client_op(
         Push([m EXCEPT !.oplog = Append(@, [op |-> tool, auths |-> Len(m.authlog),
                                             ret |-> NoResult])],
              [f |-> "etoro_tool_result", tool |-> tool]),
         tool, a)

etoro_tool_result(m0, fr, v) ==
  LET m == Returned(m0, v) IN
  IF v.t = "exc" THEN Ret(ctx_error(m), Err(v.e))
  ELSE IF IsError(v) THEN Ret(ctx_error(m), v)
  ELSE Ret(m, v)

----------------------------------------------------------------------------
(* Dispatch *)

\* The method or tool a call names.
Start(m, cl) ==
  CASE cl.layer = "tool" -> tool_op(m, cl.op, cl.args)
    [] cl.layer = "client" ->
         IF cl.op = "authenticate" THEN authenticate(m) ELSE client_op(m, cl.op, cl.args)
    [] cl.layer = "legacy_client" -> legacy_client_op(m, cl.op, cl.args)
    [] cl.layer = "legacy_tool" -> legacy_tool(m, cl.op, cl.args)
    [] cl.layer = "etoro_client" -> etoro_client_op(m, cl.op, cl.args)
    [] cl.layer = "etoro_tool" -> etoro_tool(m, cl.op, cl.args)

Resume(m, fr, v) ==
  CASE fr.f = "invoke" -> Start(m, fr.call)
    [] fr.f = "headers" -> send_authenticated_headers(m, fr)
    [] fr.f = "auth_login" -> authenticate_login(m, v)
    [] fr.f = "auth_store" -> authenticate_store(m, fr)
    [] fr.f = "auth_accounts" -> authenticate_accounts(m, v)
    [] fr.f = "mar_first" -> make_authenticated_request_first(m, fr, v)
    [] fr.f = "mar_reauth" -> make_authenticated_request_reauth(m, fr, v)
    [] fr.f = "mar_retry" -> Ret(m, v)
    [] fr.f = "op_simple" -> simple_response(m, fr, v)
    [] fr.f = "op_details" -> details_response(m, fr, v)
    [] fr.f = "close_positions" -> close_position_positions(m, fr, v)
    [] fr.f = "close_delete" -> close_position_delete(m, fr, v)
    [] fr.f = "margin_prices" -> calculate_margin_prices(m, fr, v)
    [] fr.f = "op_working_order" -> update_working_order_response(m, fr, v)
    [] fr.f = "tool_auth" -> tool_authenticated(m, fr, v)
    [] fr.f = "tool_result" -> tool_result(m, fr, v)
    [] fr.f = "legacy_auth" -> legacy_authenticate_login(m, v)
    [] fr.f = "legacy_op" -> legacy_response(m, fr, v)
    [] fr.f = "legacy_margin" -> legacy_calculate_margin_prices(m, fr, v)
    [] fr.f = "legacy_create" -> legacy_create_position_response(m, v)
    [] fr.f = "legacy_tool_margin" -> legacy_tool_create_position_margin(m, fr, v)
    [] fr.f = "legacy_tool_auth" -> legacy_tool_authenticated(m, fr, v)
    [] fr.f = "legacy_tool_result" -> legacy_tool_result(m, fr, v)
    [] fr.f = "etoro_request" -> etoro_make_request_response(m, v)
    [] fr.f = "etoro_positions" -> etoro_get_positions_portfolio(m, v)
    [] fr.f = "etoro_validate" -> etoro_validate_credentials_result(m, v)
    [] fr.f = "etoro_tool_result" -> etoro_tool_result(m, fr, v)

\* Return v to the frame on top of the stack; with no frame left the call is over.
Ret(m, v) ==
  IF m.stack = << >>
  THEN [m EXCEPT !.result = IF v.t = "exc" THEN Raised(v.e) ELSE v]
  ELSE Resume([m EXCEPT !.stack = SubSeq(@, 1, Len(@) - 1)], m.stack[Len(m.stack)], v)

\* The call cl is made: its code runs from the top.
Invoke(m, cl) == Ret(Push(m, [f |-> "invoke", call |-> cl]), [t |-> "none"])

\* What the response log keeps of an answer: the status, the token headers, and
\* the body as far as the code looks into it: not at all unless the status is
\* 200, in full for accounts and for the answers to an operation's own
\* requests, otherwise (the login) JSON or not.
Logged(req, r) ==
  [status |-> r.status, cst |-> r.cst, xst |-> r.xst,
   body |-> IF r.status # 200 THEN "text"
            ELSE IF req.by = "request" \/ req.ep \in {"accounts", "prices", "positions"}
                    \/ r.body = "nojson"
            THEN r.body ELSE "json"]

\* The broker's answer r reaches the code waiting for it.
Deliver(m, r) ==
  Ret([m EXCEPT !.pending = NoReq,
                !.resplog = Append(@, Logged(m.pending, r))],
      IF r.status = 0 THEN ExcV("ConnectionError") ELSE RespV(r))

----------------------------------------------------------------------------
(* Calls *)

Merge(f, g) == [k \in DOMAIN f \cup DOMAIN g |-> IF k \in DOMAIN f THEN f[k] ELSE g[k]]

CreateArgs ==
  { Merge([epic |-> "E1", direction |-> d, size |-> 2 * Milli], sa) :
      d \in {"BUY"}, sa \in StopArgs }
UpdateArgs == { Merge([deal_id |-> "D1"], sa) : sa \in StopArgs }
CloseArgs == [deal_id : {"D1", "D9"}]
MarginArgs == [epic : {"E1"}, direction : {"BUY", "SELL"}, size : {2 * Milli}]

PricesArgs == [epic : {"E1", "E<"}]

ClientCalls ==
  [layer : {"client"}, op : SimpleChecked \cup SimpleUnchecked, args : {Nil}]
    \cup [layer : {"client"}, op : {"authenticate"}, args : {Nil}]
    \cup [layer : {"client"}, op : {"get_prices"}, args : PricesArgs]
    \cup [layer : {"client"}, op : {"create_position"}, args : CreateArgs]
    \cup [layer : {"client"}, op : {"update_position"}, args : UpdateArgs]
    \cup [layer : {"client"}, op : {"close_position"}, args : CloseArgs]
    \cup [layer : {"client"}, op : {"calculate_margin"}, args : MarginArgs]
    \cup [layer : {"client"}, op : {"update_working_order"}, args : WorkingOrderArgs]
    \cup [layer : {"client"}, op : {"get_activity_history"}, args : ActivityArgs]

\* Sizes on both sides of the limits 0.01 and 10.0, and of zero.
SizesTried == {-1, 5, 9, 10, 10 * Milli, 10 * Milli + 1}

ToolCreateArgs ==
  CreateArgs
    \cup { Merge([epic |-> e, direction |-> d, size |-> z],
                 StopArg(Nil, Nil, Nil, Nil, Nil, Nil)) :
             e \in {"E1", ""}, d \in {"BUY", "HOLD"}, z \in {0, 2 * Milli} }
    \cup { Merge([epic |-> "E1", direction |-> "BUY", size |-> z],
                 StopArg(Nil, Nil, Nil, Nil, Nil, Nil)) : z \in SizesTried }
ToolUpdateArgs ==
  UpdateArgs
    \cup { Merge([deal_id |-> d], StopArg(Nil, Nil, Some(5), Nil, Nil, Nil)) :
             d \in {"", "D<1>"} }
ToolWorkingOrderArgs ==
  { Merge([working_order_id |-> w], a) : w \in {"W1"}, a \in WorkingOrderArgs }
    \cup { Merge([working_order_id |-> ""], a) :
             a \in { x \in WorkingOrderArgs : x.stop_level = Nil } }

ToolCalls ==
  [layer : {"tool"},
   op : {"get_account_info", "get_positions", "get_session_info",
         "get_historical_prices", "get_watchlists"},
   args : {Nil}]
    \cup [layer : {"tool"}, op : {"get_prices"}, args : PricesArgs]
    \cup [layer : {"tool"}, op : {"get_activity_history"}, args : ActivityArgs]
    \cup [layer : {"tool"}, op : {"create_position"}, args : ToolCreateArgs]
    \cup [layer : {"tool"}, op : {"close_position"}, args : [deal_id : {"D1", "D9", ""}]]
    \cup [layer : {"tool"}, op : {"update_position"}, args : ToolUpdateArgs]
    \cup [layer : {"tool"}, op : {"update_working_order"}, args : ToolWorkingOrderArgs]

LegacyUpdateArgs ==
  [deal_id : {"D1", "D<1>"}, stop_level : {Nil, Some(5)}, profit_level : {Nil, Some(5)}]

\* Leverages on both sides of the limits 0 and 100.
LeveragesTried == {-1, 0, 1, 100 * Milli, 100 * Milli + 1}
\* An epic with each of the characters the validators look for.
InjectedEpics == {"E<", "E>", "E{", "E}", "E(", "E)", "E[", "E]", "E;"}

\* create_position of the legacy client: one valid call, and the calls that
\* differ from it in one argument.
LegacyCreate(lev) ==
  [epic |-> "E1", direction |-> "BUY", size |-> Some(2 * Milli), leverage |-> lev,
   stop_level |-> Nil, profit_level |-> Nil]
LegacyCreateVariants(lev) ==
  {LegacyCreate(lev)}
    \cup { [LegacyCreate(lev) EXCEPT !.size = Some(z)] : z \in SizesTried }
    \cup { [LegacyCreate(lev) EXCEPT !.leverage = Some(l)] : l \in LeveragesTried }
    \cup { [LegacyCreate(lev) EXCEPT !.epic = "E<"],
           [LegacyCreate(lev) EXCEPT !.direction = "BUY;"],
           [LegacyCreate(lev) EXCEPT !.direction = "HOLD"] }
\* The client's leverage is optional; the tool's defaults to 20.
LegacyCreateArgs == LegacyCreateVariants(Nil)
LegacyToolCreateArgs == LegacyCreateVariants(Some(20 * Milli))
LegacyMarginArgs ==
  { [epic |-> "E1", direction |-> "BUY", size |-> Some(2 * Milli),
     leverage |-> Some(20 * Milli)] }
LegacyHistoryArgs ==
  [epic : {"E1"}, resolution : {"DAY", "DAY;", "YEAR"}, max_bars : {Some(10)},
   from_date : {Nil}, to_date : {Nil}]

LegacyCalls ==
  [layer : {"legacy_client"}, op : {"authenticate", "get_positions"}, args : {Nil}]
    \cup [layer : {"legacy_client"}, op : {"update_position"}, args : LegacyUpdateArgs]
    \cup [layer : {"legacy_client"}, op : {"get_prices"},
          args : [epic : {"E1"} \cup InjectedEpics]]
    \cup [layer : {"legacy_client"}, op : {"get_historical_prices"},
          args : LegacyHistoryArgs]
    \cup [layer : {"legacy_client"}, op : {"calculate_margin"}, args : LegacyMarginArgs]
    \cup [layer : {"legacy_client"}, op : {"create_position"}, args : LegacyCreateArgs]
    \cup [layer : {"legacy_tool"}, op : {"get_positions"}, args : {Nil}]
    \cup [layer : {"legacy_tool"}, op : {"update_position"}, args : LegacyUpdateArgs]
    \cup [layer : {"legacy_tool"}, op : {"create_position"}, args : LegacyToolCreateArgs]

\* create_position of the eToro client: leverages on both sides of 0, 1 and 100.
EtoroCreateArgs ==
  [instrument_id : {1}, amount : {100 * Milli}, leverage : LeveragesTried \cup {Milli \div 2, Milli}]
    \cup [instrument_id : {0, 1}, amount : {0, 100 * Milli}, leverage : {Milli}]

\* place_limit_order: each of amount and amount_in_units absent, zero or
\* positive.
EtoroLimitArgs ==
  [instrument_id : {0, 1}, leverage : {0, Milli},
   amount : {Nil, Some(0), Some(100 * Milli)},
   amount_in_units : {Nil, Some(0), Some(2 * Milli)}]

EtoroCalls ==
  [layer : {"etoro_client"}, op : {"validate_credentials", "get_portfolio", "get_positions"},
   args : {Nil}]
    \cup [layer : {"etoro_client", "etoro_tool"}, op : {"create_position"},
          args : EtoroCreateArgs]
    \cup [layer : {"etoro_client", "etoro_tool"}, op : {"place_limit_order"},
          args : EtoroLimitArgs]
    \cup [layer : {"etoro_tool"}, op : {"get_positions"}, args : {Nil}]

\* The calls the program of each variant offers.
CallsOf(v) ==
  CASE v = "packaged" -> ClientCalls \cup ToolCalls
    [] v = "legacy" -> LegacyCalls
    [] v = "etoro" -> EtoroCalls

Assign(m) ==
  /\ client' = m.client
  /\ legacy' = m.legacy
  /\ etoro' = m.etoro
  /\ authenticated' = m.authenticated
  /\ stack' = m.stack
  /\ pending' = m.pending
  /\ result' = m.result
  /\ reqlog' = m.reqlog
  /\ resplog' = m.resplog
  /\ authlog' = m.authlog
  /\ ctxlog' = m.ctxlog
  /\ oplog' = m.oplog

Idle == call = NoCall

\* The host (or a library user) starts a call.
Call ==
  /\ Idle
  /\ variant = "legacy"
       => \E c0 \in StartCounts : legacy.request_count \in c0..(c0 + MaxCounted - 1)
  /\ \E cl \in CallsOf(variant) :
       /\ call' = cl
       /\ pre' = [client |-> client, authenticated |-> authenticated]
       /\ Assign(Invoke(Machine, cl))
  /\ UNCHANGED << variant, threads, stores, prev, logs >>

\* The broker answers the request in flight.
Respond ==
  /\ pending # NoReq
  /\ \E r \in ResponsesTo(pending) : Assign(Deliver(Machine, r))
  /\ UNCHANGED << variant, call, pre, threads, stores, prev, logs >>

\* The caller takes the result; the client is idle again.
Finish ==
  /\ call # NoCall
  /\ result # NoResult
  /\ call' = NoCall
  /\ result' = NoResult
  /\ reqlog' = << >>
  /\ resplog' = << >>
  /\ authlog' = << >>
  /\ ctxlog' = 0
  /\ oplog' = << >>
  /\ pre' = [client |-> client, authenticated |-> authenticated]
  /\ UNCHANGED << variant, client, legacy, etoro, authenticated, stack, pending,
                  threads, stores, prev, logs >>

\* No operation has been run for its log.
NoLogs == [op |-> "none", cfg |-> << >>, answers |-> << >>, out |-> << >>]

\* No call came before.
NoPrev == [call |-> NoCall, result |-> NoResult, reqlog |-> << >>, resplog |-> << >>]

\* The threads of SpecConcurrent, and a thread that runs no call.
Threads == {1, 2}
NoThread ==
  [call |-> NoCall, stack |-> << >>, pending |-> NoReq, result |-> NoResult,
   reqlog |-> << >>, resplog |-> << >>, authlog |-> << >>]

InitClient ==
  [base_url : BOOLEAN, api_key : BOOLEAN, identifier : BOOLEAN, password : BOOLEAN,
   cst : {None}, x_security_token : {None}, account_id : {None}]

\* The legacy client: all credentials set, or one of them missing.
InitLegacy ==
  { l \in [base_url : BOOLEAN, api_key : BOOLEAN, identifier : BOOLEAN, password : BOOLEAN,
           cst : {None}, security_token : {None}, request_count : StartCounts,
           daily_trade_count : StartTrades, json_error : JsonErrors] :
      /\ Cardinality({ k \in {"base_url", "api_key", "identifier", "password"} : ~l[k] }) <= 1
      /\ l.daily_trade_count <= l.request_count }

InitEtoro == [api_key : BOOLEAN, user_key : BOOLEAN]

\* The instances of the programs that do not run.
NoClient ==
  [base_url |-> FALSE, api_key |-> FALSE, identifier |-> FALSE, password |-> FALSE,
   cst |-> None, x_security_token |-> None, account_id |-> None]
NoLegacy ==
  [base_url |-> FALSE, api_key |-> FALSE, identifier |-> FALSE, password |-> FALSE,
   cst |-> None, security_token |-> None, request_count |-> 0,
   daily_trade_count |-> 0, json_error |-> "RequestException"]
NoEtoro == [api_key |-> FALSE, user_key |-> FALSE]

Init ==
  /\ variant \in {"packaged", "legacy", "etoro"}
  /\ client \in IF variant = "packaged" THEN InitClient ELSE {NoClient}
  /\ legacy \in IF variant = "legacy" THEN InitLegacy ELSE {NoLegacy}
  /\ etoro \in IF variant = "etoro" THEN InitEtoro ELSE {NoEtoro}
  /\ authenticated = FALSE
  /\ call = NoCall
  /\ stack = << >>
  /\ pending = NoReq
  /\ result = NoResult
  /\ reqlog = << >>
  /\ resplog = << >>
  /\ authlog = << >>
  /\ ctxlog = 0
  /\ oplog = << >>
  /\ pre = [client |-> client, authenticated |-> authenticated]
  /\ threads = [t \in Threads |-> NoThread]
  /\ stores = << >>
  /\ prev = NoPrev
  /\ logs = NoLogs

Next == Call \/ Respond \/ Finish

Spec == Init /\ [][Next]_vars

\* Each program on its own.
InitPackaged == Init /\ variant = "packaged"
InitLegacyOnly == Init /\ variant = "legacy"
SpecPackaged == InitPackaged /\ [][Next]_vars
SpecLegacy == InitLegacyOnly /\ [][Next]_vars

----------------------------------------------------------------------------
(* Two threads on one packaged client *)

\* No thread starts a call once the tokens have been written MaxStores times.
MaxStores == 3

\* The machine thread t runs on: the client every thread shares, and the
\* thread's own stack, request in flight, result and logs.
ThreadMachine(t) ==
  [client |-> client, legacy |-> legacy, etoro |-> etoro,
   authenticated |-> authenticated, stack |-> threads[t].stack,
   pending |-> threads[t].pending, result |-> threads[t].result,
   reqlog |-> threads[t].reqlog, resplog |-> threads[t].resplog,
   authlog |-> threads[t].authlog, ctxlog |-> 0, oplog |-> << >>,
   thread |-> t, preempt |-> TRUE, stores |-> stores]

ThreadAssign(t, cl, m) ==
  /\ client' = m.client
  /\ stores' = m.stores
  /\ threads' = [threads EXCEPT ![t] =
                   [call |-> cl, stack |-> m.stack, pending |-> m.pending,
                    result |-> m.result, reqlog |-> m.reqlog, resplog |-> m.resplog,
                    authlog |-> m.authlog]]
  /\ UNCHANGED << variant, legacy, etoro, authenticated, call, stack, pending, result,
                  reqlog, resplog, authlog, ctxlog, oplog, pre, prev, logs >>

\* The methods the threads call, and the answers the broker gives them: it
\* accepts or rejects (401), and a login answer carries the token pair of one
\* session or of another, or none.
ConcurrentCalls ==
  [layer : {"client"}, op : {"authenticate", "get_positions"}, args : {Nil}]
ConcurrentResponses ==
  { r \in Responses : r.status \in {200, 401} /\ r.body = "J1" /\ r.cst = r.xst }

\* Thread t calls a method of the client.
ThreadCall(t) ==
  /\ threads[t].call = NoCall
  /\ Len(stores) < MaxStores
  /\ \E cl \in ConcurrentCalls : ThreadAssign(t, cl, Invoke(ThreadMachine(t), cl))

\* The broker answers the request of thread t.
ThreadRespond(t) ==
  /\ threads[t].pending \notin {NoReq, Preempted}
  /\ \E r \in ResponsesTo(threads[t].pending) \cap ConcurrentResponses :
       ThreadAssign(t, threads[t].call, Deliver(ThreadMachine(t), r))

\* Thread t, preempted, is scheduled again.
ThreadResume(t) ==
  /\ threads[t].pending = Preempted
  /\ ThreadAssign(t, threads[t].call,
                  Ret([ThreadMachine(t) EXCEPT !.pending = NoReq], [t |-> "none"]))

\* The caller on thread t takes the result.
ThreadFinish(t) ==
  /\ threads[t].call # NoCall
  /\ threads[t].result # NoResult
  /\ threads' = [threads EXCEPT ![t] = NoThread]
  /\ UNCHANGED << variant, client, legacy, etoro, authenticated, call, stack, pending,
                  result, reqlog, resplog, authlog, ctxlog, oplog, pre, stores, prev, logs >>

\* A packaged client with its credentials and endpoint configured.
InitConcurrent ==
  /\ Init
  /\ variant = "packaged"
  /\ client.base_url /\ client.api_key /\ client.identifier /\ client.password

NextConcurrent ==
  \E t \in Threads : ThreadCall(t) \/ ThreadRespond(t) \/ ThreadResume(t) \/ ThreadFinish(t)

SpecConcurrent == InitConcurrent /\ [][NextConcurrent]_vars

----------------------------------------------------------------------------
(* Reads, one after another *)

\* The search and read operations.
ReadOps ==
  {"get_account_info", "get_positions", "get_prices", "get_historical_prices",
   "get_watchlists", "get_session_info", "get_portfolio"}

\* The calls of SpecReads: the reads, and authenticate to open a session.
ReadCallsOf(v) ==
  { cl \in CallsOf(v) : cl.op \in ReadOps \cup {"authenticate"} }

\* The host (or a library user) starts a read, or repeats the read that was
\* remembered.
ReadCall ==
  /\ Idle
  /\ variant = "legacy"
       => \E c0 \in StartCounts : legacy.request_count \in c0..(c0 + MaxCounted - 1)
  /\ \E cl \in ReadCallsOf(variant) :
       /\ prev.call # NoCall => cl = prev.call
       /\ call' = cl
       /\ pre' = [client |-> client, authenticated |-> authenticated]
       /\ Assign(Invoke(Machine, cl))
  /\ UNCHANGED << variant, threads, stores, prev, logs >>

\* Two requests ask the broker the same: the method, the URL and the body are
\* the same (the session tokens in the headers need not be).
SameAsk(a, b) == a.method = b.method /\ a.ep = b.ep /\ a.payload = b.payload

\* The answers to req that repeat what the broker answered when the remembered
\* call asked the same.
AlikeTo(req) ==
  { r \in ResponsesTo(req) :
      \A j \in 1..Len(prev.reqlog) :
        SameAsk(prev.reqlog[j], req) => Logged(req, r) = prev.resplog[j] }

\* The broker answers the request in flight, as it did before if it was asked
\* the same by the remembered call.
ReadRespond ==
  /\ pending # NoReq
  /\ \E r \in AlikeTo(pending) : Assign(Deliver(Machine, r))
  /\ UNCHANGED << variant, call, pre, threads, stores, prev, logs >>

\* The caller takes the result.  A read may be remembered, to be repeated by
\* the next call; the repeat is not.
ReadFinish ==
  /\ call # NoCall
  /\ result # NoResult
  /\ prev' \in IF prev.call = NoCall /\ call.op \in ReadOps
               THEN {NoPrev, [call |-> call, result |-> result, reqlog |-> reqlog,
                              resplog |-> resplog]}
               ELSE {NoPrev}
  /\ call' = NoCall
  /\ result' = NoResult
  /\ reqlog' = << >>
  /\ resplog' = << >>
  /\ authlog' = << >>
  /\ ctxlog' = 0
  /\ oplog' = << >>
  /\ pre' = [client |-> client, authenticated |-> authenticated]
  /\ UNCHANGED << variant, client, legacy, etoro, authenticated, stack, pending,
                  threads, stores, logs >>

NextReads == ReadCall \/ ReadRespond \/ ReadFinish

SpecReads == Init /\ [][NextReads]_vars

----------------------------------------------------------------------------
(* Log output *)

\* What an operation hands to the logger: a message is the constant text of its
\* format string and the values interpolated into it, in order.  One operation
\* is run twice, on the same configuration and with the same answers from the
\* broker; the runs differ in the values of the credentials and of the session
\* tokens the broker issues, and in nothing else.  The legacy client does not
\* interpolate anything it holds, so its two runs are one computation.
Runs == {1, 2}

SecretValue ==
  [api_key |-> << "key-1", "key-2" >>, identifier |-> << "id-1", "id-2" >>,
   password |-> << "pw-1", "pw-2" >>, cst |-> << "cst-1", "cst-2" >>,
   x_security_token |-> << "xst-1", "xst-2" >>, user_key |-> << "ukey-1", "ukey-2" >>]

SecretsOf(n) == { SecretValue[k][n] : k \in DOMAIN SecretValue }

Msg(text, args) == [text |-> text, args |-> args]

\* logger.error(f"...{type(e).__name__}", exc_info=True): the type's name, then
\* the traceback, which ends with the type and the text of the exception.
Traceback(text, e) == Msg(text, << e.type, e.type, e.text >>)

StatusText(st) == CASE st = 200 -> "200" [] st = 401 -> "401" [] OTHER -> "500"

\* The exceptions the operations meet: the network fails, a body is not JSON,
\* a header the client stores in os.environ is missing.
NetworkException == [type |-> "ConnectionError", text |-> "Max retries exceeded"]
JsonException == [type |-> "JSONDecodeError", text |-> "Expecting value"]
EnvironException == [type |-> "TypeError", text |-> "str expected, not NoneType"]
StatusException == [type |-> "HTTPError", text |-> "Client Error"]

\* The credentials of a client in run n: a configured one has the value of
\* that run, a missing one is the empty string.
Configured(c, n) ==
  [k \in {"api_key", "identifier", "password", "user_key"} \cap DOMAIN c |->
     IF c[k] THEN SecretValue[k][n] ELSE ""]

\* What the broker answers: it fails to answer, or answers with a status and a
\* body that parses as JSON or not; a login answer carries the token headers or
\* not, an account list names an account or none.
LogAnswers ==
  [raise : BOOLEAN, status : {200, 401, 500}, text : {"{}", "error.invalid.details"},
   json : BOOLEAN, tokens : BOOLEAN, accounts : {<< >>, << "ACC1" >>}]

\* The token headers of a login answer in run n.
Issued(ans, n) ==
  [cst |-> IF ans.tokens THEN SecretValue.cst[n] ELSE None,
   xst |-> IF ans.tokens THEN SecretValue.x_security_token[n] ELSE None]

\* A variant of authenticate_debug that writes the login payload, as
\* create_position writes its payload.
authenticate_debug_payload(url, payload) ==
  Msg("Authenticating with payload: ", << payload.identifier, payload.password >>)

\* logger.debug(f"Authenticating with Capital.com API at {url}")
authenticate_debug(url, payload) ==
  Msg("Authenticating with Capital.com API at ", << url >>)

\* The messages of CapitalClient.authenticate (packaged), from the answer to
\* the accounts request on.
authenticate_accounts_log(accounts) ==
  IF accounts.raise THEN << Traceback("Error during authentication: ", NetworkException) >>
  ELSE IF accounts.status # 200
  THEN << Msg("Failed to get accounts: ",
              << StatusText(accounts.status), accounts.text >>) >>
  ELSE IF ~accounts.json
  THEN << Traceback("Error during authentication: ", JsonException) >>
  ELSE IF accounts.accounts = << >> THEN << Msg("No accounts found", << >>) >>
  ELSE << Msg("Successfully authenticated with account ID: ", << accounts.accounts[1] >>) >>

\* The messages of CapitalClient.authenticate (packaged).
authenticate_log(base_url, c, login, tokens, accounts) ==
  IF base_url = "" \/ c.api_key = "" \/ c.identifier = "" \/ c.password = ""
  THEN << Msg("Missing authentication credentials", << >>) >>
  ELSE
    LET url == base_url \o "/api/v1/session"
        payload == [identifier |-> c.identifier, password |-> c.password]
    IN  << authenticate_debug(url, payload) >> \o
        ( IF login.raise
          THEN << Traceback("Error during authentication: ", NetworkException) >>
          ELSE IF login.status # 200
          THEN << Msg("Authentication failed: ",
                      << StatusText(login.status), login.text >>) >>
          ELSE IF ~login.json
          THEN << Traceback("Error during authentication: ", JsonException) >>
          ELSE IF tokens.xst = None \/ tokens.cst = None
          THEN << Traceback("Error during authentication: ", EnvironException) >>
          ELSE authenticate_accounts_log(accounts) )

\* The messages of the legacy CapitalClient.authenticate, and the exception it
\* lets through, if any: raise_for_status and the network raise a
\* RequestException, which it catches; whether the exception of json() is one
\* depends on the installed requests.
legacy_authenticate_log(limited, caught, login) ==
  IF limited THEN [log |-> << Msg("Rate limit exceeded", << >>) >>, ret |-> FALSE, exc |-> Nil]
  ELSE
    LET first == << Msg("Attempting authentication with Capital.com API", << >>) >>
        failed(e) == [log |-> first \o << Msg("Authentication failed: ", << e.type >>) >>,
                      ret |-> FALSE, exc |-> Nil]
    IN  IF login.raise THEN failed(NetworkException)
        ELSE IF login.status # 200 THEN failed(StatusException)
        ELSE IF ~login.json
        THEN IF caught THEN failed(JsonException)
             ELSE [log |-> first, ret |-> FALSE, exc |-> Some(JsonException)]
        ELSE [log |-> first \o << Msg("Authentication successful", << >>) >>,
              ret |-> TRUE, exc |-> Nil]

\* The messages of the legacy tool authenticate.
legacy_tool_authenticate_log(limited, caught, login) ==
  LET made == legacy_authenticate_log(limited, caught, login) IN
  << Msg("Invoking authenticate tool", << >>) >> \o made.log \o
  ( IF made.exc # Nil THEN << Traceback("Error during authentication: ", made.exc[1]) >>
    ELSE IF made.ret THEN << Msg("Successfully authenticated with Capital.com API", << >>) >>
    ELSE << Msg("Failed to authenticate with Capital.com API", << >>) >> )

\* The messages of EtoroClient._make_request, and the "error" entry of the
\* dictionary it returns, if any.
etoro_make_request_log(method, path, ans) ==
  LET first == << Msg("Making request to ", << method, "https://etoro" \o path >>) >> IN
  IF ans.raise
  THEN [log |-> first \o << Traceback("Error making request: ", NetworkException) >>,
        error |-> Some(<< "Request error: ", NetworkException.text >>)]
  ELSE IF ans.status = 401
  THEN [log |-> first \o << Msg("Authentication failed - invalid API keys", << >>) >>,
        error |-> Some(<< "Authentication failed. Check your eToro API keys." >>)]
  ELSE IF ans.status = 200 THEN [log |-> first, error |-> Nil]
  ELSE [log |-> first \o << Msg("API request failed: ",
                                << StatusText(ans.status), ans.text >>) >>,
        error |-> Some(<< "API request failed: ", StatusText(ans.status) >>)]

\* The messages of EtoroClient.validate_credentials.
etoro_validate_credentials_log(c, ans) ==
  IF c.api_key = "" \/ c.user_key = ""
  THEN << Msg("Missing API credentials (ETORO_API_KEY and/or ETORO_USER_KEY not set)",
              << >>) >>
  ELSE
    LET made == etoro_make_request_log("GET", "/api/v1/market-data/search", ans) IN
    made.log \o
    ( IF made.error # Nil THEN << Msg("Credential validation failed: ", made.error[1]) >>
      ELSE << Msg("API credentials validated successfully", << >>) >> )

Ran(op, cfg, answers, out) == [op |-> op, cfg |-> cfg, answers |-> answers, out |-> out]

LogUnchanged ==
  UNCHANGED << variant, client, legacy, etoro, authenticated, call, stack, pending,
               result, reqlog, resplog, authlog, ctxlog, oplog, pre, threads, stores,
               prev >>

\* The packaged client authenticates, twice.
LogAuthenticate ==
  /\ variant = "packaged" /\ logs = NoLogs
  /\ \E login \in LogAnswers, accounts \in LogAnswers :
       /\ login.accounts = << >> /\ ~accounts.tokens
       /\ logs' = Ran("authenticate", client, << login, accounts >>,
                      [n \in Runs |->
                         authenticate_log(IF client.base_url THEN "https://broker" ELSE "",
                                          Configured(client, n), login,
                                          Issued(login, n), accounts)])
  /\ LogUnchanged

\* The legacy tool authenticate is called, twice; the client's counter is past
\* its limit or not.
LogLegacyAuthenticate ==
  /\ variant = "legacy" /\ logs = NoLogs
  /\ \E login \in LogAnswers, limited \in BOOLEAN :
       /\ login.accounts = << >>
       /\ logs' = Ran("legacy_authenticate", legacy, << login, limited >>,
                      [n \in Runs |->
                         legacy_tool_authenticate_log(
                           limited, legacy.json_error = "RequestException", login)])
  /\ LogUnchanged

\* The eToro client validates its credentials, twice.
LogEtoroValidate ==
  /\ variant = "etoro" /\ logs = NoLogs
  /\ \E ans \in LogAnswers :
       /\ ans.accounts = << >> /\ ~ans.tokens
       /\ logs' = Ran("validate_credentials", etoro, << ans >>,
                      [n \in Runs |->
                         etoro_validate_credentials_log(Configured(etoro, n), ans)])
  /\ LogUnchanged

NextLogs == LogAuthenticate \/ LogLegacyAuthenticate \/ LogEtoroValidate

SpecLogs == Init /\ [][NextLogs]_vars

----------------------------------------------------------------------------
(* Observations on a finished call *)

Done == call # NoCall /\ result # NoResult

\* A client operation (not authenticate itself) of a Capital.com client is over.
ClientOpDone == Done /\ call.layer = "client" /\ call.op # "authenticate"

\* The i-th request of the call is an operation's own and was answered 401.
Rejected(i) ==
  i \in 1..Len(resplog) /\ reqlog[i].by = "request" /\ resplog[i].status = 401

\* The j-th request of the call sends the i-th one again.
Resends(j, i) ==
  /\ j > i /\ j \in 1..Len(reqlog) /\ reqlog[j].by = "request"
  /\ reqlog[j].method = reqlog[i].method /\ reqlog[j].ep = reqlog[i].ep
  /\ reqlog[j].payload = reqlog[i].payload

\* The broker accepted the i-th request: status 200 with the content the
\* operation goes on with (both tokens for the login, an account for the account
\* list, a price for calculate_margin, the position for close_position, and a
\* JSON body in every case).
Accepted(i) ==
  /\ i \in 1..Len(resplog) /\ resplog[i].status = 200 /\ resplog[i].body # "nojson"
  /\ reqlog[i].by = "authenticate" /\ reqlog[i].ep = "session"
       => resplog[i].cst # None /\ resplog[i].xst # None
  /\ reqlog[i].by = "authenticate" /\ reqlog[i].ep = "accounts"
       => Accounts(resplog[i].body) # << >>
  /\ call.op = "calculate_margin" /\ reqlog[i].by = "request"
       => HasPrices(resplog[i].body)
  /\ call.op = "close_position" /\ reqlog[i].by = "request" /\ reqlog[i].method = "GET"
       => FindPosition(Positions(resplog[i].body), call.args.deal_id) # << >>

----------------------------------------------------------------------------
(* Session retry *)

\* C1: for a Capital.com client whose re-authentication always fails, a client
\* operation whose request is answered 401 makes exactly one authenticate()
\* attempt, sends no request of its own after the rejected one, and returns an
\* error dictionary that reports the failed re-authentication.
C1_RetryBound ==
  (/\ ClientOpDone
   /\ \E i \in 1..Len(resplog) : Rejected(i)
   /\ \A k \in 1..Len(authlog) : ~authlog[k])
    => /\ Len(authlog) = 1
       /\ \A i \in 1..Len(resplog) :
            Rejected(i) => \A j \in 1..Len(reqlog) : j > i => reqlog[j].by = "authenticate"
       /\ IsError(result) /\ result.error = "Re-authentication failed"

\* An operation of a client with a cached account id is over; its first
\* request was answered 401 and every later one was accepted.
C2_Case ==
  /\ ClientOpDone
  /\ pre.client.account_id # None
  /\ Rejected(1)
  /\ \A i \in 2..Len(resplog) : Accepted(i)

\* C2: with a cached account id, when the first request of an operation is
\* answered 401 and everything after it is accepted, authenticate() is called
\* exactly once, the request is sent again exactly once, with the tokens the
\* login answer carried, and the operation returns a success payload.
C2_RetryLaw ==
  C2_Case
    => /\ authlog = << TRUE >>
       /\ Cardinality({ j \in 1..Len(reqlog) : Resends(j, 1) }) = 1
       /\ \A j \in 1..Len(reqlog) :
            Resends(j, 1) => reqlog[j].cst = resplog[2].cst /\ reqlog[j].xst = resplog[2].xst
       /\ IsDict(result) /\ result.error = None

\* The retry happened with tokens that differ from the ones first sent, in an
\* operation that goes on with a second request.
C2_Witness ==
  /\ C2_Case
  /\ call.op = "close_position"
  /\ reqlog[1].cst = "T1" /\ reqlog[4].cst = "T2"
  /\ Len(reqlog) = 5 /\ result.error = None

\* A failure reaches the caller: an error dictionary, an exception, or False.
SurfacesFailure == IsError(result) \/ result.t = "raised" \/ result = BoolV(FALSE)

\* An operation, other than authenticate, of one of the three clients is over.
AnyClientOpDone ==
  /\ Done
  /\ call.layer \in {"client", "legacy_client", "etoro_client"}
  /\ call.op # "authenticate"

\* C3: in every broker client, an operation that receives a 401 and surfaces a
\* failure has attempted exactly one re-authentication, also when the operation
\* issues more than one request.
C3_ExactlyOneReauth ==
  (AnyClientOpDone /\ (\E i \in 1..Len(resplog) : Rejected(i)) /\ SurfacesFailure)
    => Len(authlog) = 1

----------------------------------------------------------------------------
(* Session and credentials *)

\* The account id the client had cached when the call started; the legacy
\* client keeps none.
CachedAccountId == IF call.layer = "client" THEN pre.client.account_id ELSE None

\* C4: a Capital.com client without a cached account id issues no HTTP request
\* in any operation other than authenticate(); the operation returns a
\* 'Not authenticated' error dictionary.
C4_NotAuthenticated ==
  (/\ Done /\ call.layer \in {"client", "legacy_client"} /\ call.op # "authenticate"
   /\ CachedAccountId = None)
    => reqlog = << >> /\ IsError(result) /\ result.error = "Not authenticated"

\* The credentials of the Capital.com client the call runs on.
Credentials == IF call.layer = "client" THEN client ELSE legacy
MissingCredential ==
  ~Credentials.base_url \/ ~Credentials.api_key \/ ~Credentials.identifier
    \/ ~Credentials.password

AuthenticateDone ==
  Done /\ call.layer \in {"client", "legacy_client"} /\ call.op = "authenticate"

\* C6: authenticate() on a client with one of the four credentials missing
\* fails at once: it returns False and issues no HTTP request.
C6_MissingCredentials ==
  (AuthenticateDone /\ MissingCredential) => result = BoolV(FALSE) /\ reqlog = << >>

\* The session tokens and the account id the client holds.
StoredTokens ==
  IF call.layer = "client" THEN << client.cst, client.x_security_token >>
  ELSE << legacy.cst, legacy.security_token >>
StoredAccountId == IF call.layer = "client" THEN client.account_id ELSE None

\* C7: when authenticate() returns True both tokens of the login response are
\* stored and the cached account id is the first entry of the account list
\* fetched in that call; after a network error, a status other than 200 or an
\* empty account list it returns False.
C7_AuthenticateResult ==
  AuthenticateDone
    => /\ result = BoolV(TRUE)
            => /\ StoredTokens = << resplog[1].cst, resplog[1].xst >>
               /\ StoredTokens[1] # None /\ StoredTokens[2] # None
               /\ Len(resplog) = 2
               /\ Accounts(resplog[2].body) # << >>
               /\ StoredAccountId = Accounts(resplog[2].body)[1]
       /\ (\E i \in 1..Len(resplog) :
             \/ resplog[i].status # 200
             \/ reqlog[i].ep = "accounts" /\ Accounts(resplog[i].body) = << >>)
            => result = BoolV(FALSE)

----------------------------------------------------------------------------
(* The adapter boundary *)

ToolDone == Done /\ call.layer = "tool"

\* C5: no tool call raises an exception to the host: whatever the flag, the
\* outcome of authentication and the broker's answers, the tool returns a
\* dictionary.
C5_NoRaise == ToolDone => IsDict(result)

\* C8: a tool invoked while the authenticated flag is false calls
\* client.authenticate() before it invokes the client method, and when that
\* authentication fails it invokes no client method and returns an error
\* dictionary.
C8_AuthFirst ==
  (ToolDone /\ ~pre.authenticated)
    => /\ \A i \in 1..Len(oplog) : oplog[i].auths >= 1
       /\ (authlog # << >> /\ ~authlog[1]) => oplog = << >> /\ IsError(result)

----------------------------------------------------------------------------
(* Local validation *)

\* The tool call breaks a rule the adapter or the client checks locally.
InvalidToolCall ==
  \/ /\ call.layer = "tool" /\ call.op = "create_position"
     /\ \/ call.args.epic = "" \/ call.args.direction \notin {"BUY", "SELL"}
        \/ call.args.size <= 0 \/ stop_rules(call.args) # None
  \/ /\ call.layer = "tool" /\ call.op = "update_position"
     /\ call.args.deal_id = "" \/ AllNone(call.args) \/ stop_rules(call.args) # None
  \/ call.layer = "tool" /\ call.op = "close_position" /\ call.args.deal_id = ""
  \/ /\ call.layer = "tool" /\ call.op = "update_working_order"
     /\ \/ call.args.working_order_id = ""
        \/ IsNone(call.args.level) /\ IsNone(call.args.stop_level)
             /\ IsNone(call.args.profit_level)
  \/ /\ call.layer = "tool" /\ call.op = "get_activity_history"
     /\ \/ /\ ~IsNone(call.args.from_date) /\ ~IsNone(call.args.to_date)
           /\ call.args.to_date[1] - call.args.from_date[1] > MaxPeriod
        \/ /\ IsNone(call.args.from_date) /\ IsNone(call.args.to_date)
           /\ NonZero(call.args.last_period) /\ call.args.last_period[1] > MaxPeriod
  \/ /\ call.layer = "legacy_tool" /\ call.op = "update_position"
     /\ \/ validate_input(Kwargs(call.args, UpdateKeys)) # None
        \/ IsNone(call.args.stop_level) /\ IsNone(call.args.profit_level)

\* C9: a tool call whose arguments break a local validation rule returns an
\* error dictionary having issued no HTTP request at all, authentication
\* requests included, whatever the authenticated flag.
C9_ValidationFirst ==
  (Done /\ InvalidToolCall) => reqlog = << >> /\ IsError(result)

\* An update method of a client called with every mutable field null.
AllNullUpdate ==
  /\ Done
  /\ \/ call.layer = "client" /\ call.op = "update_position" /\ AllNone(call.args)
     \/ /\ call.layer = "client" /\ call.op = "update_working_order"
        /\ IsNone(call.args.level) /\ IsNone(call.args.stop_level)
        /\ IsNone(call.args.profit_level)
     \/ /\ call.layer = "legacy_client" /\ call.op = "update_position"
        /\ IsNone(call.args.stop_level) /\ IsNone(call.args.profit_level)

AtLeastOneErrors ==
  {"At least one parameter must be provided",
   "At least one parameter (level, stop_level, profit_level) must be provided",
   AtLeastOne}

\* The check that fails first in an update with every field null.
FirstFailure ==
  CASE call.layer = "client" /\ call.op = "update_position" ->
         IF pre.client.account_id = None THEN "Not authenticated"
         ELSE "At least one parameter must be provided"
    [] call.layer = "client" /\ call.op = "update_working_order" ->
         "At least one parameter (level, stop_level, profit_level) must be provided"
    [] call.layer = "legacy_client" ->
         IF rate_limited(legacy) THEN "Rate limit exceeded"
         ELSE IF client_validate_input(Kwargs(call.args, UpdateKeys)) # None
         THEN client_validate_input(Kwargs(call.args, UpdateKeys))
         ELSE AtLeastOne

\* C10 as stated: an update with every mutable field null issues no PUT and
\* returns an error dictionary saying that at least one parameter is required.
C10_AtLeastOneError ==
  AllNullUpdate
    => /\ \A i \in 1..Len(reqlog) : reqlog[i].method # "PUT"
       /\ IsError(result) /\ result.error \in AtLeastOneErrors

\* C10: an update with every mutable field null issues no request at all and
\* returns an error dictionary; the error is the one of the first check that
\* fails: no cached account id (packaged update_position), the rate limit or
\* the deal id (legacy update_position), and otherwise that at least one
\* parameter is required.
C10_NoPut ==
  AllNullUpdate => reqlog = << >> /\ IsError(result) /\ result.error = FirstFailure

\* An all-null update is turned down for a missing parameter on a client that
\* could have sent it.
C10_Witness ==
  /\ AllNullUpdate
  /\ call.layer = "client" /\ call.op = "update_position"
  /\ pre.client.account_id # None
  /\ result.error = "At least one parameter must be provided"

----------------------------------------------------------------------------
(* The shared session *)

\* Thread t's first request was answered 401 and its j-th request sends it again.
ThreadRetry(t, j) ==
  /\ threads[t].call # NoCall /\ threads[t].call.op # "authenticate"
  /\ Len(threads[t].resplog) >= 1 /\ threads[t].resplog[1].status = 401
  /\ j > 1 /\ j \in 1..Len(threads[t].reqlog)
  /\ threads[t].reqlog[j].by = "request"

\* The last write of thread t to the token field key (0 when it made none).
LastOwn(t, key) ==
  LET S == { i \in 1..Len(stores) : stores[i].by = t /\ stores[i].key = key } IN
  IF S = {} THEN 0 ELSE CHOOSE i \in S : \A k \in S : k <= i

\* val was written to the token field key by thread t's last login or by a
\* write of any thread that came after it.
WrittenSince(t, key, val) ==
  /\ LastOwn(t, key) > 0
  /\ \E i \in LastOwn(t, key)..Len(stores) : stores[i].key = key /\ stores[i].val = val

\* C11: two threads share the one session of a client with no lock and no
\* versioning.  A thread whose request is answered 401 runs authenticate()
\* itself, whatever the other thread is doing, and its retry carries what the
\* shared client holds when the headers are built: for each token, the value
\* its own login wrote or one that another thread wrote over it since.
C11_SharedSession ==
  \A t \in Threads :
    /\ (Len(threads[t].resplog) >= 1 /\ threads[t].resplog[1].status = 401
          /\ threads[t].reqlog[1].by = "request" /\ Len(threads[t].reqlog) >= 2)
         => threads[t].reqlog[2].by = "authenticate" /\ threads[t].reqlog[2].ep = "session"
    /\ \A j \in 1..Len(threads[t].reqlog) :
         ThreadRetry(t, j)
           => /\ threads[t].authlog = << TRUE >>
              /\ WrittenSince(t, "cst", threads[t].reqlog[j].cst)
              /\ WrittenSince(t, "x_security_token", threads[t].reqlog[j].xst)

\* Both threads were answered 401 and both authenticated; the login of thread 1
\* brought the tokens T1, the login of thread 2 wrote T2 over them, and thread 1
\* sent its request again with T2.
C11_Witness ==
  /\ \A t \in Threads :
       /\ threads[t].call # NoCall /\ threads[t].call.op = "get_positions"
       /\ Len(threads[t].resplog) >= 2 /\ threads[t].resplog[1].status = 401
       /\ threads[t].authlog = << TRUE >>
  /\ threads[1].resplog[2].cst = "T1" /\ threads[1].resplog[2].xst = "T1"
  /\ threads[2].resplog[2].cst = "T2" /\ threads[2].resplog[2].xst = "T2"
  /\ Len(threads[1].reqlog) = 4
  /\ threads[1].reqlog[4].by = "request"
  /\ threads[1].reqlog[4].cst = "T2" /\ threads[1].reqlog[4].xst = "T2"

----------------------------------------------------------------------------
(* Recovery *)

\* The arguments of a client call pass every local check of the method.
ValidClientCall ==
  CASE call.layer = "client" /\ call.op = "create_position" -> stop_rules(call.args) = None
    [] call.layer = "client" /\ call.op = "update_position" ->
         stop_rules(call.args) = None /\ ~AllNone(call.args)
    [] call.layer = "client" /\ call.op = "update_working_order" ->
         ~(IsNone(call.args.level) /\ IsNone(call.args.stop_level)
             /\ IsNone(call.args.profit_level))
    [] call.layer = "client" /\ call.op = "get_activity_history" ->
         /\ ~(~IsNone(call.args.from_date) /\ ~IsNone(call.args.to_date)
                /\ call.args.to_date[1] - call.args.from_date[1] > MaxPeriod)
         /\ ~(IsNone(call.args.from_date) /\ IsNone(call.args.to_date)
                /\ NonZero(call.args.last_period) /\ call.args.last_period[1] > MaxPeriod)
    [] call.layer = "legacy_client" /\ call.op = "update_position" ->
         /\ client_validate_input(Kwargs(call.args, UpdateKeys)) = None
         /\ ~(IsNone(call.args.stop_level) /\ IsNone(call.args.profit_level))
    [] OTHER -> TRUE

\* A call on a Capital.com client that has its four credentials, made when the
\* client can make it (authenticate() at any time, another method of the packaged
\* client once an account id is cached), with valid arguments, is over; the
\* broker accepted every request of the call.
BrokerAccepts ==
  /\ Done
  /\ call.layer \in {"client", "legacy_client"}
  /\ ~MissingCredential
  /\ call.op = "authenticate" \/ call.layer = "legacy_client"
       \/ pre.client.account_id # None
  /\ ValidClientCall
  /\ \A i \in 1..Len(resplog) : Accepted(i)

Succeeded == result = BoolV(TRUE) \/ (IsDict(result) /\ result.error = None)

\* C12: a client with its credentials and endpoint configured is never stuck in
\* failure: whatever calls came before and however they ended, a call the broker
\* accepts succeeds.
C12_NeverTerminal == BrokerAccepts => Succeeded

----------------------------------------------------------------------------
(* Limits on size and leverage *)

\* A create_position call of the Capital.com programs that validate the size:
\* the legacy client, the legacy tool and the packaged tool.
CreateCallDone ==
  Done /\ call.op = "create_position" /\ call.layer \in {"legacy_client", "legacy_tool", "tool"}

\* The size presented, in thousandths.
SizeOf(a) == IF call.layer = "tool" THEN a.size ELSE a.size[1]

\* The call with a size that is in range.
WithSize(a, z) == IF call.layer = "tool" THEN [a EXCEPT !.size = z] ELSE [a EXCEPT !.size = Some(z)]

\* The local checks a create_position call goes through, as the error of the
\* first that fails (None when all pass).
CreateValidation(a) ==
  CASE call.layer = "legacy_client" -> client_validate_input(Kwargs(a, CreateKeys))
    [] call.layer = "legacy_tool" -> validate_input(Kwargs(a, ToolCreateKeys))
    [] call.layer = "tool" ->
         IF a.epic = "" THEN "Epic identifier cannot be empty"
         ELSE IF a.direction \notin {"BUY", "SELL"}
         THEN "Direction must be either 'BUY' or 'SELL'"
         ELSE IF a.size <= 0 THEN "Size must be greater than 0"
         ELSE None

SizeErrors ==
  {"Position size too small", "Position size too large", "Size must be greater than 0"}

\* Validation was reached (the legacy client checks its rate limit first) and
\* the size is the only argument that can fail it.
SizeDecides ==
  /\ CreateCallDone
  /\ call.layer = "legacy_client" => ~rate_limited(legacy)
  /\ CreateValidation(WithSize(call.args, 2 * Milli)) = None

\* C13: a create_position call of a Capital.com program is turned down by
\* validation, before any request, if and only if its size is below 0.01 or
\* above 10.0.
C13_SizeRange ==
  SizeDecides
    => ((IsError(result) /\ result.error \in SizeErrors /\ reqlog = << >>)
          <=> (SizeOf(call.args) < 10 \/ SizeOf(call.args) > 10 * Milli))

\* A create_position call that takes a leverage: the legacy Capital.com client
\* and tool, and the eToro client.
LeverageCallDone ==
  /\ Done /\ call.op = "create_position"
  /\ call.layer \in {"legacy_client", "legacy_tool", "etoro_client"}
  /\ call.layer # "etoro_client" => ~IsNone(call.args.leverage)

\* The leverage supplied, in thousandths.
LeverageOf(a) == IF call.layer = "etoro_client" THEN a.leverage ELSE a.leverage[1]

\* Validation was reached and the leverage is the only argument that can fail it.
LeverageDecides ==
  /\ LeverageCallDone
  /\ call.layer = "legacy_client" => ~rate_limited(legacy)
  /\ call.layer = "legacy_client"
       => client_validate_input(
            Kwargs([call.args EXCEPT !.leverage = Some(20 * Milli)], CreateKeys)) = None
  /\ call.layer = "legacy_tool"
       => validate_input(
            Kwargs([call.args EXCEPT !.leverage = Some(20 * Milli)], ToolCreateKeys)) = None
  /\ call.layer = "etoro_client" => call.args.instrument_id > 0 /\ call.args.amount > 0

LeverageErrors == {"Leverage must be between 1 and 100", "leverage must be at least 1"}

\* C14: in both brokers' programs a create_position call with a leverage is
\* turned down by validation, before any request, if and only if the leverage
\* is at most 0 or above 100.
C14_LeverageRange ==
  LeverageDecides
    => ((IsError(result) /\ result.error \in LeverageErrors /\ reqlog = << >>)
          <=> (LeverageOf(call.args) <= 0 \/ LeverageOf(call.args) > 100 * Milli))

----------------------------------------------------------------------------
(* Injection characters *)

\* The values of epic, direction, deal_id and resolution that a request carries
\* in its URL or its body.
Carries(req) ==
  IF req.by # "request" THEN {}
  ELSE CASE req.ep = "prices" /\ "resolution" \in DOMAIN req.payload ->
              {req.payload.epic, req.payload.resolution}
         [] req.ep = "prices" /\ "resolution" \notin DOMAIN req.payload -> {req.payload.epic}
         [] req.ep = "positions" /\ req.method = "POST" ->
              {req.payload.epic, req.payload.direction}
         [] req.ep = "positions" /\ req.method = "DELETE" ->
              {req.payload.dealId, req.payload.epic, req.payload.direction}
         [] req.ep = "positions/id" -> {req.payload.deal_id}
         [] OTHER -> {}

\* The values the call passes as epic, direction, deal_id or resolution.
Passed ==
  IF call = NoCall THEN {}
  ELSE { call.args[k] : k \in DOMAIN call.args \cap StringKeys }

\* C15: a call that passes a string with one of the characters < > { } ( ) [ ] ;
\* as epic, direction, deal_id or resolution is turned down with an error and
\* without any request, and no request ever carries such a value for one of
\* these parameters.
C15_NoInjection ==
  /\ \A i \in 1..Len(reqlog) : \A val \in Carries(reqlog[i]) : ~HasInjection(val)
  /\ (Done /\ \E val \in Passed : HasInjection(val))
       => IsError(result) /\ reqlog = << >>

\* The create_position and update_position requests, with their bodies.
PositionRequests ==
  { i \in 1..Len(reqlog) :
      /\ reqlog[i].by = "request"
      /\ \/ reqlog[i].ep = "positions" /\ reqlog[i].method = "POST"
         \/ reqlog[i].ep = "positions/id" /\ reqlog[i].method = "PUT" }
SentTrue(req, k) ==
  /\ "json" \in DOMAIN req.payload
  /\ k \in DOMAIN req.payload.json
  /\ req.payload.json[k] = TRUE
Sent(req, k) == k \in req.payload.keys

\* The three combinations the broker's rules forbid, on the arguments of a call.
ForbiddenStops(a) ==
  \/ a.guaranteed_stop = Some(TRUE) /\ a.trailing_stop = Some(TRUE)
  \/ a.trailing_stop = Some(TRUE) /\ a.stop_distance = Nil
  \/ /\ a.guaranteed_stop = Some(TRUE)
     /\ a.stop_level = Nil /\ a.stop_distance = Nil /\ a.stop_amount = Nil
StopCall ==
  /\ call # NoCall
  /\ variant = "packaged"
  /\ call.op \in {"create_position", "update_position"}
\* The operations that apply the rules themselves: the client's create_position
\* and update_position, and the adapter's update_position.
ChecksStops ==
  StopCall /\ (call.layer = "client" \/ call.op = "update_position")

DictOpDone == AnyClientOpDone /\ call.op # "validate_credentials"

\* The last request of the call is the operation's own and was answered with a
\* status that is neither a success nor 401.
RefusedLast ==
  /\ reqlog # << >>
  /\ reqlog[Len(reqlog)].by = "request"
  /\ resplog[Len(reqlog)].status >= 400
  /\ resplog[Len(reqlog)].status # 401

\* C17: a client operation whose request is answered with a non-success status
\* other than 401 returns an error dictionary that carries this status code
\* and the raw response body.
C17_StatusAndBody ==
  (DictOpDone /\ RefusedLast)
    => /\ IsError(result)
       /\ result.status = resplog[Len(reqlog)].status
       /\ result.details

\* The last request of the call is the operation's own and was answered with a
\* success status and a body that is empty or not JSON.
UnparsedLast ==
  /\ reqlog # << >>
  /\ reqlog[Len(reqlog)].by = "request"
  /\ resplog[Len(reqlog)].status = 200
  /\ resplog[Len(reqlog)].body = "nojson"

\* What an operation makes of the success marker: the marker itself, or the
\* empty list of positions get_positions reads from it.
MarkerResults == {Ok(SuccessMarker), Ok([op |-> "get_positions", body |-> "J0"])}

\* C18: a client operation whose request is answered with a success status and
\* a body that is empty or not JSON returns the generic success marker, not an
\* error dictionary.
C18_SuccessMarker ==
  (DictOpDone /\ UnparsedLast) => ~IsError(result) /\ result \in MarkerResults

\* A tool is over whose last client operation returned an error dictionary.
ClientFailed ==
  /\ Done
  /\ call.layer \in {"tool", "legacy_tool", "etoro_tool"}
  /\ oplog # << >>
  /\ IsError(oplog[Len(oplog)].ret)

\* C19: a tool whose client operation returned an error dictionary has sent a
\* diagnostic to ctx.error and returns that same dictionary.
C19_ReportsErrors ==
  ClientFailed => ctxlog >= 1 /\ result = oplog[Len(oplog)].ret

\* The broker answered alike: whenever this call asked what the call before had
\* asked, it got the answer given then.
AnsweredAlike ==
  \A i \in 1..Len(resplog) : \A j \in 1..Len(prev.reqlog) :
    SameAsk(reqlog[i], prev.reqlog[j]) => resplog[i] = prev.resplog[j]

\* A read is over that repeats the call before it.
ReadRepeated == Done /\ call.op \in ReadOps /\ prev.call = call

\* C20: a read that repeats the call before it, the broker answering alike,
\* has the result that call had.
C20_ReadsIdempotent ==
  (ReadRepeated /\ AnsweredAlike) => result = prev.result

\* A message of the log of run n carries the value of a secret of that run.
Leaks(n) ==
  \E i \in 1..Len(logs.out[n]) : \E j \in 1..Len(logs.out[n][i].args) :
    logs.out[n][i].args[j] \in SecretsOf(n)

CreateUnauthenticated ==
  /\ call # NoCall
  /\ call.layer \in {"tool", "legacy_tool"}
  /\ call.op = "create_position"
  /\ ~pre.authenticated

\* The POSTs to the positions endpoint the call has issued.
PositionPosts ==
  { i \in 1..Len(reqlog) :
      reqlog[i].by = "request" /\ reqlog[i].ep = "positions" /\ reqlog[i].method = "POST" }

\* Before request i went out the tool's client.authenticate() had returned
\* True: the login request came first and was answered with 200.
AuthenticatedBefore(i) ==
  /\ authlog # << >> /\ authlog[1] = TRUE
  /\ authenticated
  /\ \E j \in 1..(i - 1) :
       reqlog[j].ep = "session" /\ reqlog[j].method = "POST" /\ resplog[j].status = 200

\* The arguments pass the validation of the tool and of the client.
ValidCreate ==
  IF call.layer = "tool" THEN stop_rules(call.args) = None
  ELSE /\ client_validate_input(Kwargs(call.args, CreateKeys)) = None
       /\ client_validate_input(Kwargs(call.args, MarginKeys)) = None

\* The broker answered every request of the call with 200 and a JSON body, a
\* price request with prices.
AnswersUsable ==
  \A j \in 1..Len(resplog) :
    /\ resplog[j].status = 200
    /\ resplog[j].body # "nojson"
    /\ reqlog[j].ep = "prices" => HasPrices(resplog[j].body)

\* The legacy client refused an operation of the call because its request
\* counter or its daily trade counter had reached its limit.
LimitRefused ==
  \E k \in 1..Len(oplog) :
    /\ IsError(oplog[k].ret)
    /\ oplog[k].ret.error \in {"Rate limit exceeded", "Daily trading limit has been reached"}

\* The call ended having issued one POST to the positions endpoint, with the
\* requested size in its body.
OnePostOfSize ==
  /\ Cardinality(PositionPosts) = 1
  /\ \A i \in PositionPosts : reqlog[i].payload.size = call.args.size

\* The tool's authentication succeeded and the broker accepted.
CreateAccepted ==
  /\ Done /\ CreateUnauthenticated /\ ValidCreate
  /\ authlog # << >> /\ authlog[1] = TRUE
  /\ AnswersUsable

EtoroToolWithoutKey ==
  /\ call # NoCall
  /\ call.layer = "etoro_tool"
  /\ ~etoro.api_key \/ ~etoro.user_key

\* C23: an eToro tool called while the API key or the user key is missing
\* issues no HTTP request and returns an error dictionary, whatever the tool
\* and its arguments.
C23_NoKeyNoRequest ==
  EtoroToolWithoutKey =>
    /\ reqlog = << >> /\ pending = NoReq
    /\ Done => IsError(result)

\* create_position, its arguments valid, was refused for the missing user key.
C23_Witness ==
  /\ Done /\ EtoroToolWithoutKey
  /\ etoro.api_key /\ ~etoro.user_key
  /\ call.op = "create_position"
  /\ etoro_tool_checks(call.op, call.args) = None
  /\ result = Err("Missing credentials")
  /\ ctxlog = 1

\* place_limit_order of the eToro client or adapter is called, or was.
LimitOrderCall ==
  /\ call # NoCall
  /\ call.layer \in {"etoro_client", "etoro_tool"}
  /\ call.op = "place_limit_order"

\* How many of amount and amount_in_units the caller provided.
AmountsGiven ==
  Cardinality({ k \in {"amount", "amount_in_units"} : ~IsNone(call.args[k]) })

\* C24: place_limit_order issues a request only when exactly one of amount and
\* amount_in_units is provided, and the body then has exactly one of Amount
\* and AmountInUnits, the one provided; with both or neither it issues no
\* request and returns an error dictionary.
C24_ExactlyOneAmount ==
  LimitOrderCall =>
    /\ \A i \in 1..Len(reqlog) :
         /\ AmountsGiven = 1
         /\ Cardinality(reqlog[i].payload.keys) = 1
         /\ "Amount" \in reqlog[i].payload.keys <=> ~IsNone(call.args.amount)
    /\ AmountsGiven # 1 => reqlog = << >> /\ pending = NoReq /\ (Done => IsError(result))

\* A limit order given in units only went out with AmountInUnits alone.
C24_Witness ==
  /\ Done /\ LimitOrderCall
  /\ call.args.amount = Nil /\ call.args.amount_in_units = Some(2 * Milli)
  /\ Len(reqlog) = 1
  /\ reqlog[1].method = "POST" /\ reqlog[1].ep = "limit-orders"
  /\ reqlog[1].payload.keys = {"AmountInUnits"}
  /\ ~IsError(result)

\* The requests for the activity history the call has issued.
ActivityRequests ==
  { i \in 1..Len(reqlog) : reqlog[i].by = "request" /\ reqlog[i].ep = "history/activity" }

\* The seconds between two dates, whichever comes first.
Apart(x, y) == IF x >= y THEN x - y ELSE y - x

\* C25: no request for the activity history carries a lastPeriod above 86400,
\* a lastPeriod together with a from or a to date, or a from and a to date
\* more than 86400 seconds apart.
C25_PeriodLimits ==
  \A i \in ActivityRequests :
    LET p == reqlog[i].payload IN
    /\ ~IsNone(p.lastPeriod) => p.lastPeriod[1] <= MaxPeriod /\ IsNone(p.from) /\ IsNone(p.to)
    /\ (~IsNone(p.from) /\ ~IsNone(p.to)) => Apart(p.from[1], p.to[1]) <= MaxPeriod

\* close_position of the packaged client is called, or was.
CloseCall == call # NoCall /\ call.layer = "client" /\ call.op = "close_position"

\* The closing requests the call has issued.
CloseDeletes ==
  { i \in 1..Len(reqlog) :
      reqlog[i].by = "request" /\ reqlog[i].ep = "positions" /\ reqlog[i].method = "DELETE" }

\* Before request i the position list was read with success, deal_id was in
\* it, and request i carries the opposite direction, the size and the epic of
\* that position.
ClosesListed(i) ==
  \E j \in 1..(i - 1) :
    /\ reqlog[j].by = "request" /\ reqlog[j].ep = "positions" /\ reqlog[j].method = "GET"
    /\ resplog[j].status = 200
    /\ \E k \in 1..Len(Positions(resplog[j].body)) :
         LET pos == Positions(resplog[j].body)[k] IN
         /\ pos.dealId = call.args.deal_id
         /\ reqlog[i].payload.dealId = call.args.deal_id
         /\ pos.direction = "BUY" => reqlog[i].payload.direction = "SELL"
         /\ pos.direction = "SELL" => reqlog[i].payload.direction = "BUY"
         /\ reqlog[i].payload.size = pos.size
         /\ reqlog[i].payload.epic = pos.epic

\* C26: close_position of the packaged client issues its DELETE only after a
\* successful read of the position list in which deal_id appears, with the
\* opposite direction and the size and epic of that position; a call that ends
\* without a DELETE returns an error dictionary.
C26_ClosesOpposite ==
  CloseCall =>
    /\ \A i \in CloseDeletes : ClosesListed(i)
    /\ (Done /\ CloseDeletes = {}) => IsError(result)

\* The second position of a list, a SELL of size 5, was closed with a BUY of 5.
C26_Witness ==
  /\ Done /\ CloseCall
  /\ call.args.deal_id = "D1"
  /\ \E i \in CloseDeletes :
       /\ reqlog[i].payload.direction = "BUY" /\ reqlog[i].payload.size = 5 * Milli
       /\ resplog[i - 1].body = "J2"
  /\ ~IsError(result)

\* Every authenticate() the call has made on the packaged client, its own or a
\* re-authentication, returned False.
AuthenticateFailed ==
  /\ call # NoCall
  /\ call.layer \in {"client", "tool"}
  /\ authlog # << >>
  /\ \A k \in 1..Len(authlog) : authlog[k] = FALSE

\* C27: an authenticate() of the packaged client that returns False leaves the
\* cached account_id as it was before the call, at whatever point it failed.
C27_AccountKept ==
  AuthenticateFailed => client.account_id = pre.client.account_id

\* authenticate() was called on a client that had an account cached, stored
\* the tokens of a new session, and failed at the account list.
C27_Witness ==
  /\ Done /\ AuthenticateFailed
  /\ call.layer = "client" /\ call.op = "authenticate"
  /\ result = BoolV(FALSE)
  /\ pre.client.account_id # None
  /\ client.cst # pre.client.cst
  /\ Len(reqlog) = 2 /\ reqlog[2].ep = "accounts"

\* C28: in the packaged adapter the authenticated flag, once true, stays true,
\* and whenever it is true the client has an account id cached.
C28_FlagMonotone ==
  /\ [](authenticated => client.account_id # None)
  /\ [][authenticated => authenticated']_vars

\* A tool was called with the flag set, its request was rejected with 401, the
\* re-authentication failed, and the flag is still set.
C28_Witness ==
  /\ Done /\ call.layer = "tool"
  /\ pre.authenticated /\ authenticated
  /\ authlog # << >> /\ authlog[Len(authlog)] = FALSE
  /\ client.account_id # None

\* A POST to the positions endpoint is in flight.
PositionPostPending == pending.method = "POST" /\ pending.ep = "positions"

\* This step is the broker answering a POST to the positions endpoint with 200.
PositionPostSucceeds ==
  /\ PositionPostPending
  /\ Len(resplog') = Len(resplog) + 1
  /\ resplog'[Len(resplog')].status = 200

\* C29: in the legacy client daily_trade_count goes up by one in the step that
\* answers a POST to the positions endpoint with success and is left alone by
\* every other step; it never exceeds max_daily_trades, and no POST to the
\* positions endpoint goes out once it has reached it.
C29_TradeCount ==
  /\ [][variant = "legacy" =>
          legacy.daily_trade_count' =
            legacy.daily_trade_count + (IF PositionPostSucceeds THEN 1 ELSE 0)]_vars
  /\ [](legacy.daily_trade_count <= max_daily_trades)
  /\ []((variant = "legacy" /\ PositionPostPending)
          => legacy.daily_trade_count < max_daily_trades)

\* The twentieth trade has been made and a further create_position, its
\* arguments valid, was refused without a request.
C29_Witness ==
  /\ Done /\ call.layer = "legacy_client" /\ call.op = "create_position"
  /\ legacy.daily_trade_count = max_daily_trades
  /\ IsError(result) /\ result.error = "Daily trading limit has been reached"
  /\ reqlog = << >>

\* This step is the start of an operation of the legacy client.
LegacyOpStarts == call = NoCall /\ call' # NoCall /\ call'.layer = "legacy_client"

\* C30: in the legacy client request_count never goes down and goes up with
\* every operation that starts, authenticate() included; an operation that
\* starts when 60 calls have been counted fails at once, without a request.
C30_RateLimit ==
  /\ [][variant = "legacy" => legacy.request_count' >= legacy.request_count]_vars
  /\ [][LegacyOpStarts => legacy.request_count' > legacy.request_count]_vars
  /\ [][(LegacyOpStarts /\ legacy.request_count >= max_requests_per_minute)
          => /\ reqlog' = << >> /\ pending' = NoReq
             /\ result' # NoResult
             /\ IF call'.op = "authenticate" THEN result'.t = "bool" /\ ~result'.b
                ELSE IsError(result')]_vars

\* authenticate() was called on a client with all its credentials after 60
\* counted calls, and returned False without a request.
C30_Witness ==
  /\ Done /\ call.layer = "legacy_client" /\ call.op = "authenticate"
  /\ legacy.base_url /\ legacy.api_key /\ legacy.identifier /\ legacy.password
  /\ legacy.request_count = max_requests_per_minute + 1
  /\ reqlog = << >>
  /\ result.t = "bool" /\ ~result.b

====
